---- MODULE Spec2Model ----
(***************************************************************************)
(* Model of the video-processing pipeline of the highlight generator:      *)
(* the BullMQ workers of video.worker.ts (video job, embedding jobs,        *)
(* completion detection), the queues of queue.service.ts and the clip       *)
(* materialisation of ProcessingService.createClipsFromScenes.              *)
(*                                                                         *)
(* Times are whole seconds.  A nullable column is a sequence of length 0    *)
(* (null) or 1 (a value).  A text is the sequence of its words, so that     *)
(* join(' ').trim() is concatenation and the empty string is << >>.         *)
(***************************************************************************)
EXTENDS Integers, Sequences, FiniteSets, TLC

(* ------------------------------------------------------------------ *)
(* Bounds of the model                                                 *)
(* ------------------------------------------------------------------ *)
\* largest time stamp of a boundary list given to createClipsFromScenes
MaxTime == 5
\* longest boundary list given to createClipsFromScenes
MaxScenes == 4
\* largest minimum clip duration given to createClipsFromScenes
MaxMinDur == 3
\* worker crashes (stalled-job redeliveries) explored per video job
MaxCrashes == 1
\* most Clip rows of a video given to a direct call of checkVideoCompletion
MaxRows == 2
\* direct calls of checkVideoCompletion made in succession
MaxCalls == 2
\* most clips of a highlight request
MaxHighlightClips == 2
\* largest declared size of an upload, in bytes, and longest chunk
MaxUploadSize == 2
\* chunk requests made for one upload session
MaxRequests == 2
\* most time stamps the cut-detection tool reports in a direct call of detectScenes
MaxCutReports == 2
\* most texts given to a call of embedBatch
MaxTexts == 3
\* calls of refreshToken made with one token
MaxRefreshCalls == 2
\* seconds that pass while the calls of refreshToken run
MaxTicks == 1
\* embedding jobs that run beside the job of the video of many clips
MaxRunningJobs == 1

(* ------------------------------------------------------------------ *)
(* Program constants                                                   *)
(* ------------------------------------------------------------------ *)
\* videoQueue defaultJobOptions.attempts
VideoAttempts == 3
\* embeddingQueue defaultJobOptions.attempts (and the fallback's attempts)
EmbeddingAttempts == 3
\* SHORT_VIDEO_THRESHOLD of the video worker
SHORT_VIDEO_THRESHOLD == 30
\* SHORT_VIDEO_CLIP_THRESHOLD of the video worker
SHORT_VIDEO_CLIP_THRESHOLD == 10
\* default of createClipsFromScenes' minClipDuration
DefaultMinClipDuration == 3
\* highlightQueue defaultJobOptions.attempts
HighlightAttempts == 3
\* MAX_FILE_SIZE of the OpenAI transcription provider, in MB
MAX_FILE_SIZE == 25
\* TARGET_CHUNK_SIZE of transcribeInChunks, in MB
TARGET_CHUNK_SIZE == 20
\* the duration up to which detectScenes skips the cut-detection tool
DetectShortDuration == 30
\* life time of a RefreshToken row: 7 days, in seconds
RefreshLifetime == 604800
\* config.jwt.refreshExpiry ('7d'), in seconds
JwtRefreshExpiry == 604800
\* refresh tokens kept per user by the cleanup of generateTokens
KeepTokens == 5

NULL == << >>
Some(x) == << x >>

VARIABLES
    \* ---- inputs and result of a direct call of createClipsFromScenes
    scenesIn,       \* the boundary list
    durationIn,     \* the duration argument
    minIn,          \* the minClipDuration argument
    clipsOut,       \* NULL before the call, Some(result) after it
    \* ---- direct calls of checkVideoCompletion
    checkLog,       \* one entry per call made, in call order
    \* ---- the pipeline of one video
    videoDuration,  \* duration the metadata probe reports for the file
    status,         \* Video.status
    clips,          \* the Clip rows of the video, in insertion order
    vjob,           \* the video-processing job as the queue sees it
    pc,             \* position of the running attempt of the video job
    local,          \* local variables of the running attempt
    ejobs,          \* the jobs of the embedding queue, in insertion order
    failedEvt,      \* a 'failed' event of the video worker is to be handled
    hist,           \* history of the run (what has happened so far)
    \* ---- a direct call of detectScenes
    detectIn,       \* the duration argument and what the cut-detection tool does
    detectOut,      \* NULL before the call, Some(result) after it
    \* ---- one highlight, its rendering job and the files of the renderer
    hreq,           \* the clips of the create request, in request order
    highlight,      \* NULL, or Some(the Highlight row with its HighlightClip rows)
    hjob,           \* the highlight-generation job as the queue sees it
    hpc,            \* position of the running call of generateHighlightVideo
    hlocal,         \* local variables of the running call
    disk,           \* the temporary clip files and the output file
    \* ---- one upload session and the chunk requests made for it
    session,        \* the UploadSession row (kept as last stored once deleted)
    uploadFile,     \* number of bytes appended to the upload's file
    videos,         \* the Video rows created from the session
    videoJobs,      \* the jobs added to the video queue for the session
    reqs,           \* the chunk requests: position and locals of each
    \* ---- a call of OpenAITranscriptionProvider.transcribe
    txIn,           \* the file's size and duration, and what the API answers per request
    txChunks,       \* the chunks cut out of the file, in order
    txOut,          \* NULL before the call, Some(result) after it
    \* ---- a call of WhisperCppProvider.transcribe
    whisperIn,      \* whether the audio file can be read, and what the service answers
    whisperOut,     \* NULL before the call, Some(outcome) after it
    \* ---- a call of embedBatch of an embedding provider
    embedIn,        \* the provider, the texts and what the backend does per request
    embedOut,       \* NULL before the call, Some(outcome) after it
    embedSent,      \* the requests made to the backend: the texts of each, in order
    \* ---- the refresh tokens of one user and the calls of refreshToken
    clock,          \* the time, in seconds
    rtRows,         \* the RefreshToken rows, in creation order
    rtNextId,       \* the id of the row created next
    rtArg,          \* the token the calls are made with
    rtReqs,         \* the calls of refreshToken: position and locals of each
    mapSegs,      \* transcript mapping: the segments of the transcription
    mapClip,      \* transcript mapping: the clip of one turn of the loop
    mapOut,       \* transcript mapping: NULL, or Some(result of the turn)
    cloudIn,      \* cloud transcription: the file, the replies of the API, the file checks
    cloudOut,     \* cloud transcription: NULL, or Some(what the call did and how it ended)
    delDb,        \* deletion race: the Video row, its file and its Clip rows
    delJob,       \* deletion race: the video job (position, attempts, writes of this attempt)
    delReq,       \* deletion race: the position of deleteVideo
    delLog,       \* deletion race: the updates issued after the row was deleted
    pipeline,         \* model load: this.pipeline, NULL or Some(the load it came from)
    pipelinePromise,  \* model load: this.pipelinePromise, NULL or Some(the load it stands for)
    loads,            \* model load: per load, its state and the callers that await it
    callers,          \* model load: per caller of getPipeline, its position and what it got
    microtasks        \* model load: the microtask queue of the event loop

detectVars == << detectIn, detectOut >>
hlVars == << hreq, highlight, hjob, hpc, hlocal, disk >>
upVars == << session, uploadFile, videos, videoJobs, reqs >>
txVars == << txIn, txChunks, txOut >>
whisperVars == << whisperIn, whisperOut >>
embedVars == << embedIn, embedOut, embedSent >>
authVars == << clock, rtRows, rtNextId, rtArg, rtReqs >>
mapVars == << mapSegs, mapClip, mapOut >>
cloudVars == << cloudIn, cloudOut >>
delVars == << delDb, delJob, delReq, delLog >>
loadVars == << pipeline, pipelinePromise, loads, callers, microtasks >>
\* the provider calls and services modelled beside the pipeline
svcVars == << whisperVars, embedVars, authVars, mapVars, cloudVars, delVars, loadVars >>
extVars == << detectVars, hlVars, upVars, txVars, svcVars >>
fnVars == << scenesIn, durationIn, minIn, clipsOut, checkLog, extVars >>
pipeVars == << videoDuration, status, clips, vjob, pc, local, ejobs, failedEvt, hist >>
\* everything but the highlight and its job
otherThanHl == << scenesIn, durationIn, minIn, clipsOut, checkLog, detectVars, upVars, txVars, svcVars, pipeVars >>
\* everything but the upload session and its requests
otherThanUp == << scenesIn, durationIn, minIn, clipsOut, checkLog, detectVars, hlVars, txVars, svcVars, pipeVars >>
\* everything but the call of the transcription provider
otherThanTx == << scenesIn, durationIn, minIn, clipsOut, checkLog, detectVars, hlVars, upVars, svcVars, pipeVars >>
vars == << scenesIn, durationIn, minIn, clipsOut, checkLog,
           videoDuration, status, clips, vjob, pc, local, ejobs, failedEvt, hist,
           detectIn, detectOut,
           hreq, highlight, hjob, hpc, hlocal, disk,
           session, uploadFile, videos, videoJobs, reqs,
           txIn, txChunks, txOut,
           whisperIn, whisperOut,
           embedIn, embedOut, embedSent,
           clock, rtRows, rtNextId, rtArg, rtReqs,
           mapSegs, mapClip, mapOut,
           cloudIn, cloudOut,
           delDb, delJob, delReq, delLog,
           pipeline, pipelinePromise, loads, callers, microtasks >>

(* ------------------------------------------------------------------ *)
(* ProcessingService.createClipsFromScenes                             *)
(* ------------------------------------------------------------------ *)
\* scenes[i + 1] || duration, for the 1-based index i: undefined and 0 are falsy
NextScene(scenes, i, duration) ==
    IF i + 1 <= Len(scenes) /\ scenes[i + 1] # 0 THEN scenes[i + 1] ELSE duration

\* faulty variant: the last turn of the loop emits nothing for a short rest
EmitNowOnlyLong(nextScene, currentStart, minClipDuration, i, n) ==
    nextScene - currentStart >= minClipDuration

\* faulty variant: a clip is emitted at every boundary, short spans are not merged
EmitNowNoMerge(nextScene, currentStart, minClipDuration, i, n) ==
    TRUE

\* nextScene - currentStart >= minClipDuration || i === scenes.length - 1
EmitNow(nextScene, currentStart, minClipDuration, i, n) ==
    nextScene - currentStart >= minClipDuration \/ i = n

\* currentStart = nextScene
Advance(scenes, i, nextScene) ==
    nextScene

RECURSIVE ClipLoop(_, _, _, _, _, _)
ClipLoop(scenes, duration, minClipDuration, i, currentStart, acc) ==
    IF i > Len(scenes) THEN acc
    ELSE LET nextScene == NextScene(scenes, i, duration)
         IN  IF EmitNow(nextScene, currentStart, minClipDuration, i, Len(scenes))
             THEN ClipLoop(scenes, duration, minClipDuration, i + 1,
                           Advance(scenes, i, nextScene),
                           Append(acc, [startTime |-> currentStart, endTime |-> nextScene]))
             ELSE ClipLoop(scenes, duration, minClipDuration, i + 1, currentStart, acc)

\* the (startTime, endTime) ranges createClipsFromScenes inserts, in order
createClipsFromScenes(scenes, duration, minClipDuration) ==
    LET made == IF Len(scenes) = 0 THEN << >>
                ELSE ClipLoop(scenes, duration, minClipDuration, 1, scenes[1], << >>)
    IN  IF Len(made) = 0 THEN << [startTime |-> 0, endTime |-> duration] >> ELSE made

(* ------------------------------------------------------------------ *)
(* Idle values of the two groups of variables                          *)
(* ------------------------------------------------------------------ *)
DetectIdle ==
    /\ detectIn = [duration |-> NULL, tool |-> [kind |-> "error", times |-> << >>]]
    /\ detectOut = NULL

HIdleLocal == [rows |-> << >>, i |-> 0, clipPaths |-> << >>]

HlIdle ==
    /\ hreq = << >>
    /\ highlight = NULL
    /\ hjob = [state |-> "none", attemptsMade |-> 0]
    /\ hpc = "idle"
    /\ hlocal = HIdleLocal
    /\ disk = [temp |-> {}, output |-> NULL]

\* a chunk request that has not arrived; error is the error it ended with,
\* appended the bytes it wrote to the file, grew what its update added to
\* uploadedSize (NULL while it has made none)
NewReq == [pc |-> "new", offset |-> 0, len |-> 0, currentOffset |-> 0, complete |-> FALSE,
           videoId |-> 0, error |-> "", appended |-> 0, grew |-> NULL]

UpIdle ==
    /\ session = [deleted |-> TRUE, size |-> 0, uploadedSize |-> 0, status |-> "pending"]
    /\ uploadFile = 0
    /\ videos = << >>
    /\ videoJobs = << >>
    /\ reqs = << >>

TxIdle ==
    /\ txIn = [size |-> 0, duration |-> 0, responses |-> << >>]
    /\ txChunks = << >>
    /\ txOut = NULL

\* the parsed body of a reply: segments is absent, an array (items) or a
\* value of another type; text is absent (NULL) or Some(words)
NoData == [segKind |-> "absent", items |-> << >>, text |-> NULL]

WhisperIdle ==
    /\ whisperIn = [readable |-> TRUE, reply |-> [kind |-> "unreachable", data |-> NoData]]
    /\ whisperOut = NULL

EmbedIdle ==
    /\ embedIn = [provider |-> "transformers", texts |-> << >>, batch |-> "throw",
                  single |-> << >>]
    /\ embedOut = NULL
    /\ embedSent = << >>

\* jwt.sign(payload, refreshSecret, { expiresIn }): the payload holds the
\* user only, so the token of one user is determined by iat, the second in
\* which it is signed
SignRefresh(now) == [iat |-> now]

AuthIdle ==
    /\ clock = 0
    /\ rtRows = << >>
    /\ rtNextId = 1
    /\ rtArg = SignRefresh(0)
    /\ rtReqs = << >>

MapIdle ==
    /\ mapSegs = << >>
    /\ mapClip = [startTime |-> 0, endTime |-> 0]
    /\ mapOut = NULL

CloudIdle ==
    /\ cloudIn = [size |-> 1, replies |-> << >>, fileOk |-> << >>]
    /\ cloudOut = NULL

DelIdle ==
    /\ delDb = [exists |-> FALSE, status |-> "", file |-> FALSE, clips |-> {}, nextId |-> 1]
    /\ delJob = [pc |-> "none", attemptsMade |-> 0, ids |-> {}, todo |-> {}, writes |-> 0, late |-> FALSE]
    /\ delReq = "none"
    /\ delLog = [issued |-> 0, rows |-> 0]

\* the loads and the callers of getPipeline the model follows
MaxCallers == 3
\* every caller starts at most one load
MaxLoads == MaxCallers

LoadIdle ==
    /\ pipeline = NULL
    /\ pipelinePromise = NULL
    /\ loads = [n \in 1..MaxLoads |-> [state |-> "unused", waiters |-> << >>]]
    /\ callers = [c \in 1..MaxCallers |-> [pc |-> "idle", load |-> 0, got |-> 0]]
    /\ microtasks = << >>

SvcIdle ==
    /\ WhisperIdle
    /\ EmbedIdle
    /\ AuthIdle
    /\ MapIdle
    /\ CloudIdle
    /\ DelIdle
    /\ LoadIdle

ExtIdle ==
    /\ DetectIdle
    /\ HlIdle
    /\ UpIdle
    /\ TxIdle
    /\ SvcIdle

FnIdle ==
    /\ scenesIn = << >>
    /\ durationIn = 0
    /\ minIn = 0
    /\ clipsOut = NULL
    /\ checkLog = << >>
    /\ ExtIdle

IdleLocal ==
    [scenes |-> << >>, clipIds |-> << >>, segments |-> << >>, cwt |-> << >>, i |-> 0, clean |-> TRUE,
     tool |-> FALSE, probe |-> FALSE, thumb |-> FALSE, saved |-> FALSE, batch |-> "none",
     bad |-> {}]

PipeIdle ==
    /\ videoDuration = 0
    /\ status = "PROCESSING"
    /\ clips = << >>
    /\ vjob = [state |-> "completed", attemptsMade |-> 0, crashes |-> 0]
    /\ pc = "idle"
    /\ local = IdleLocal
    /\ ejobs = << >>
    /\ failedEvt = FALSE
    /\ hist = [deliveries |-> 0, readyCount |-> 0, fatalAt |-> 0]

(* ------------------------------------------------------------------ *)
(* Direct calls of createClipsFromScenes on bounded inputs             *)
(* ------------------------------------------------------------------ *)
IsSorted(s) == \A a, b \in 1..Len(s) : a < b => s[a] <= s[b]

\* the boundary lists of the bound: sorted ascending, first boundary 0
SceneLists ==
    { s \in UNION { [1..n -> 0..MaxTime] : n \in 1..MaxScenes } : s[1] = 0 /\ IsSorted(s) }

InitClips ==
    /\ scenesIn \in SceneLists
    /\ durationIn \in 0..MaxTime
    /\ minIn \in 1..MaxMinDur
    /\ clipsOut = NULL
    /\ checkLog = << >>
    /\ ExtIdle
    /\ PipeIdle

CallCreateClips ==
    /\ clipsOut = NULL
    /\ clipsOut' = Some(createClipsFromScenes(scenesIn, durationIn, minIn))
    /\ UNCHANGED << scenesIn, durationIn, minIn, checkLog, extVars >>
    /\ UNCHANGED pipeVars

NextClips == CallCreateClips

SpecClips == InitClips /\ [][NextClips]_vars

\* C10: for a sorted boundary list starting at 0, every emitted clip but the
\* last is at least minClipDuration long, and each clip ends where the next
\* one starts.
C10_MinDurationAndContiguous ==
    clipsOut # NULL =>
        LET out == clipsOut[1]
        IN  /\ \A k \in 1..(Len(out) - 1) : out[k].endTime - out[k].startTime >= minIn
            /\ \A k \in 1..(Len(out) - 1) : out[k].endTime = out[k + 1].startTime

\* a call that merged a short span and emitted three clips
C10_Witness ==
    /\ clipsOut # NULL
    /\ Len(clipsOut[1]) >= 3
    /\ Len(clipsOut[1]) < Len(scenesIn)
    /\ minIn >= 2

(* ------------------------------------------------------------------ *)
(* Completion detection: checkVideoCompletion                          *)
(* ------------------------------------------------------------------ *)
\* transcript: { not: "" } matches a row whose transcript is set and not ""
NotEmptyString(t) == t # NULL /\ t[1] # << >>

\* faulty variant: the count ignores the transcript and takes every clip without an
\* embedding as pending
PendingClipsAnyTranscript(cl) ==
    { k \in 1..Len(cl) : cl[k].embedding = NULL }

\* the rows prisma.clip.count counts: embedding null and
\* (transcript not "" or transcript null)
PendingClips(cl) ==
    { k \in 1..Len(cl) :
        /\ cl[k].embedding = NULL
        /\ (NotEmptyString(cl[k].transcript) \/ cl[k].transcript = NULL) }

\* faulty variant: the update to READY is not filtered by the current status
ReadyGuardAnyStatus(st) ==
    TRUE

\* the where clause of the update to READY: status: 'EMBEDDING'
ReadyGuard(st) ==
    st = "EMBEDDING"

(* ------------------------------------------------------------------ *)
(* The video worker: one video, its job and the embedding jobs         *)
(* ------------------------------------------------------------------ *)
Max(a, b) == IF a >= b THEN a ELSE b
Min(a, b) == IF a <= b THEN a ELSE b

\* durations of the videos processed: one short (<= 30 s), one long
Durations == { 10, 40 }

\* cut time stamps the scene filter may report for a long video
Cuts == { 20 }

Seg(a, b, words) == [start |-> a, end |-> b, text |-> words]

\* the durations of the videos that are cut into many clips
ManyDurations == { 35, 36 }

\* the cuts reported for such a video: one every third second
ManyCuts == << 3, 6, 9, 12, 15, 18, 21, 24, 27, 30, 33 >>

\* what transcribeFullVideo may return for a video of duration d; for a
\* video of many clips also one long segment, which reaches into 10 clips of
\* the shorter video and into 11 of the longer
Transcriptions(d) ==
    { << >>,
      << Seg(2, 8, << "w1" >>) >>,
      << Seg(2, 8, << "w1" >>), Seg(d - 2, d, << "w2" >>) >> }
    \cup (IF d \in ManyDurations
          THEN { << Seg(0, d - 5, << "w3" >>) >> }
          ELSE {})

\* the filter of the mapping loop: an actual overlap, or the segment lies
\* within the clip
Overlaps(s, clip) ==
    LET overlapStart == Max(s.start, clip.startTime)
        overlapEnd == Min(s.end, clip.endTime)
    IN  (overlapEnd > overlapStart) \/ (s.start >= clip.startTime /\ s.end <= clip.endTime)

\* overlappingSegments.map(s => s.text).join(' ').trim()
RECURSIVE JoinTexts(_, _)
JoinTexts(segs, clip) ==
    IF segs = << >> THEN << >>
    ELSE (IF Overlaps(Head(segs), clip) THEN Head(segs).text ELSE << >>)
         \o JoinTexts(Tail(segs), clip)

\* clipsWithTranscript: the clips of this attempt whose transcript is not empty
RECURSIVE WithTranscript(_, _)
WithTranscript(ids, cl) ==
    IF ids = << >> THEN << >>
    ELSE (IF cl[Head(ids)].transcript[1] # << >> THEN << Head(ids) >> ELSE << >>)
         \o WithTranscript(Tail(ids), cl)

\* the rows prisma.clip.create inserts for the ranges, made by delivery n
RECURSIVE NewRows(_, _)
NewRows(ranges, n) ==
    IF ranges = << >> THEN << >>
    ELSE << [startTime |-> Head(ranges).startTime, endTime |-> Head(ranges).endTime,
             transcript |-> NULL, embedding |-> NULL, attempt |-> n] >>
         \o NewRows(Tail(ranges), n)

\* the ids (row numbers) from a to b
RECURSIVE IdsFrom(_, _)
IdsFrom(a, b) == IF a > b THEN << >> ELSE << a >> \o IdsFrom(a + 1, b)

Range(s) == { s[k] : k \in 1..Len(s) }

(* ------------------------------------------------------------------ *)
(* ProcessingService.detectScenes                                      *)
(* ------------------------------------------------------------------ *)
\* the optional duration argument is NULL (undefined) or Some(seconds); the
\* tool either fails to start ("error") or closes after reporting the
\* pts_time stamps in times

\* a number that is defined and not 0
Truthy(duration) == duration # NULL /\ duration[1] # 0

\* faulty variant: a video of exactly the threshold is given to the tool
IsShortVideoStrict(duration) ==
    duration # NULL /\ duration[1] < DetectShortDuration

\* duration !== undefined && duration <= 30
IsShortVideo(duration) ==
    duration # NULL /\ duration[1] <= DetectShortDuration

\* [...set].sort((a, b) => a - b)
RECURSIVE SortAscending(_)
SortAscending(S) ==
    IF S = {} THEN << >>
    ELSE LET m == CHOOSE x \in S : \A y \in S : x <= y
         IN  << m >> \o SortAscending(S \ { m })

\* the boundary list detectScenes resolves to, and whether it spawned the tool
detectScenes(duration, tool) ==
    IF IsShortVideo(duration)
    THEN [scenes |-> << 0, duration[1] >>, spawned |-> FALSE]
    ELSE IF tool.kind = "error"
    THEN [scenes |-> IF Truthy(duration) THEN << 0, duration[1] >> ELSE << 0 >>,
          spawned |-> TRUE]
    ELSE LET kept == { t \in Range(tool.times) : ~Truthy(duration) \/ t <= duration[1] }
             uniqueScenes == SortAscending({ 0 } \cup kept)
         IN  [scenes |-> IF Truthy(duration) /\ uniqueScenes[Len(uniqueScenes)] < duration[1]
                         THEN Append(uniqueScenes, duration[1]) ELSE uniqueScenes,
              spawned |-> TRUE]

\* what the tool may do for a video of the pipeline: fail, report no cut,
\* or report one of the cuts
ToolOutcomes ==
    { [kind |-> "error", times |-> << >>], [kind |-> "close", times |-> << >>] }
    \cup { [kind |-> "close", times |-> << c >>] : c \in Cuts }

\* what detectScenes resolves to for a long video: [0, duration] when the
\* tool fails or finds nothing, else 0, the cuts and the duration
DetectOutcomes(d) ==
    { detectScenes(Some(d), o).scenes :
        o \in ToolOutcomes \cup (IF d \in ManyDurations
                                 THEN { [kind |-> "close", times |-> ManyCuts] } ELSE {}) }

Init ==
    /\ FnIdle
    /\ videoDuration \in Durations
    /\ status = "PROCESSING"
    /\ clips = << >>
    /\ vjob = [state |-> "waiting", attemptsMade |-> 0, crashes |-> 0]
    /\ pc = "idle"
    /\ local = IdleLocal
    /\ ejobs = << >>
    /\ failedEvt = FALSE
    /\ hist = [deliveries |-> 0, readyCount |-> 0, fatalAt |-> 0]

\* the queue hands the job to the worker.  A retry waits for its backoff
\* (1 s or more), so the 'failed' handler of the attempt before has run.
VStart ==
    /\ vjob.state = "waiting"
    /\ ~failedEvt
    /\ vjob' = [vjob EXCEPT !.state = "active"]
    /\ pc' = "findVideo"
    /\ local' = IdleLocal
    /\ hist' = [hist EXCEPT !.deliveries = @ + 1]
    /\ UNCHANGED << videoDuration, status, clips, ejobs, failedEvt >>
    /\ UNCHANGED fnVars

\* faulty variant: the job has failed for good after the first exception
AfterThrowNoRetry(job) ==
    [job EXCEPT !.attemptsMade = @ + 1, !.state = "failed"]

\* what the queue does with an attempt that threw: another attempt while
\* attempts are left, else the job has failed
AfterThrow(job) ==
    [job EXCEPT !.attemptsMade = @ + 1,
                !.state = IF job.attemptsMade + 1 < VideoAttempts THEN "waiting" ELSE "failed"]

\* prisma.video.findUnique returns the Video row
VFindVideo ==
    /\ pc = "findVideo"
    /\ pc' = "fileCheck"
    /\ UNCHANGED << videoDuration, status, clips, vjob, local, ejobs, failedEvt, hist >>
    /\ UNCHANGED fnVars

\* prisma.video.findUnique rejects: the processor throws outside its try
\* blocks and writes no status
VFindThrow ==
    /\ pc = "findVideo"
    /\ vjob' = AfterThrow(vjob)
    /\ pc' = "idle"
    /\ failedEvt' = TRUE
    /\ UNCHANGED << videoDuration, status, clips, local, ejobs, hist >>
    /\ UNCHANGED fnVars

\* fs.access and fs.stat succeed
VFileCheckOk ==
    /\ pc = "fileCheck"
    /\ pc' = "setProcessing"
    /\ UNCHANGED << videoDuration, status, clips, vjob, local, ejobs, failedEvt, hist >>
    /\ UNCHANGED fnVars

\* the file is missing or unreadable: FAILED is written and the processor throws
VFileCheckFail ==
    /\ pc = "fileCheck"
    /\ status' = "FAILED"
    /\ vjob' = AfterThrow(vjob)
    /\ pc' = "idle"
    /\ failedEvt' = TRUE
    /\ hist' = [hist EXCEPT !.fatalAt = IF @ = 0 THEN hist.deliveries ELSE @]
    /\ UNCHANGED << videoDuration, clips, local, ejobs >>
    /\ UNCHANGED fnVars

VSetProcessing ==
    /\ pc = "setProcessing"
    /\ status' = "PROCESSING"
    /\ pc' = "metadata"
    /\ UNCHANGED << videoDuration, clips, vjob, local, ejobs, failedEvt, hist >>
    /\ UNCHANGED fnVars

\* getVideoMetadata resolves; the thumbnail may still be in the making
VProbeDone ==
    /\ pc = "metadata"
    /\ ~local.probe
    /\ local' = [local EXCEPT !.probe = TRUE]
    /\ UNCHANGED << videoDuration, status, clips, vjob, pc, ejobs, failedEvt, hist >>
    /\ UNCHANGED fnVars

\* generateThumbnail resolves; the probe may still be running
VThumbnailDone ==
    /\ pc = "metadata"
    /\ ~local.thumb
    /\ local' = [local EXCEPT !.thumb = TRUE]
    /\ UNCHANGED << videoDuration, status, clips, vjob, pc, ejobs, failedEvt, hist >>
    /\ UNCHANGED fnVars

\* faulty variant: the first of the two promises to resolve ends the wait
JoinedEither(l) ==
    l.probe \/ l.thumb

\* Promise.all([getVideoMetadata, generateThumbnail]) has resolved
Joined(l) ==
    l.probe /\ l.thumb

\* metadata probe and thumbnail are joined and written to the Video row
VMetadata ==
    /\ pc = "metadata"
    /\ Joined(local)
    /\ local' = [local EXCEPT !.saved = TRUE]
    /\ pc' = "scenes"
    /\ UNCHANGED << videoDuration, status, clips, vjob, ejobs, failedEvt, hist >>
    /\ UNCHANGED fnVars

\* [0, duration] for a short video, else the result of detectScenes
VScenes ==
    /\ pc = "scenes"
    /\ IF videoDuration <= SHORT_VIDEO_THRESHOLD
       THEN local' = [local EXCEPT !.scenes = << 0, videoDuration >>]
       ELSE \E sc \in DetectOutcomes(videoDuration) :
                local' = [local EXCEPT !.scenes = sc, !.tool = TRUE]
    /\ pc' = "createClips"
    /\ UNCHANGED << videoDuration, status, clips, vjob, ejobs, failedEvt, hist >>
    /\ UNCHANGED fnVars

\* createClipsFromScenes(videoId, scenes, metadata.duration) inserts its rows
VCreateClips ==
    /\ pc = "createClips"
    /\ LET ranges == createClipsFromScenes(local.scenes, videoDuration, DefaultMinClipDuration)
       IN  /\ clips' = clips \o NewRows(ranges, hist.deliveries)
           /\ local' = [local EXCEPT !.clipIds = IdsFrom(Len(clips) + 1, Len(clips) + Len(ranges))]
    /\ pc' = "setTranscribing"
    /\ UNCHANGED << videoDuration, status, vjob, ejobs, failedEvt, hist >>
    /\ UNCHANGED fnVars

VSetTranscribing ==
    /\ pc = "setTranscribing"
    /\ status' = "TRANSCRIBING"
    /\ pc' = "transcribe"
    /\ UNCHANGED << videoDuration, clips, vjob, local, ejobs, failedEvt, hist >>
    /\ UNCHANGED fnVars

\* transcribeFullVideo returns its segments
VTranscribe ==
    /\ pc = "transcribe"
    /\ \E segs \in Transcriptions(videoDuration) :
           local' = [local EXCEPT !.segments = segs]
    /\ pc' = "setEmbedding"
    /\ UNCHANGED << videoDuration, status, clips, vjob, ejobs, failedEvt, hist >>
    /\ UNCHANGED fnVars

VSetEmbedding ==
    /\ pc = "setEmbedding"
    /\ status' = "EMBEDDING"
    /\ pc' = "mapClip"
    /\ local' = [local EXCEPT !.i = 1]
    /\ UNCHANGED << videoDuration, clips, vjob, ejobs, failedEvt, hist >>
    /\ UNCHANGED fnVars

\* faulty variant: the batch path is taken whatever the number of clips
ShouldBatchAlways(n) ==
    TRUE

\* shouldBatch = clipsWithTranscript.length <= SHORT_VIDEO_CLIP_THRESHOLD
ShouldBatch(n) ==
    n <= SHORT_VIDEO_CLIP_THRESHOLD

\* one turn of the mapping loop: the transcript of the next clip is written;
\* after the last clip the embedding path is chosen
VMapClip ==
    /\ pc = "mapClip"
    /\ LET id == local.clipIds[local.i]
           written == [clips EXCEPT ![id].transcript = Some(JoinTexts(local.segments, clips[id]))]
           last == local.i = Len(local.clipIds)
           cwt == WithTranscript(local.clipIds, written)
       IN  /\ clips' = written
           /\ IF ~last
              THEN /\ local' = [local EXCEPT !.i = @ + 1]
                   /\ pc' = "mapClip"
              ELSE /\ local' = [local EXCEPT !.cwt = cwt, !.i = 1]
                   /\ pc' = IF ShouldBatch(Len(cwt)) /\ Len(cwt) > 0
                            THEN "batch" ELSE "enqueueAll"
    /\ UNCHANGED << videoDuration, status, vjob, ejobs, failedEvt, hist >>
    /\ UNCHANGED fnVars

NewJob(id) == [clipId |-> id, state |-> "waiting", attemptsMade |-> 0, checkError |-> FALSE]

\* faulty variant: the first clip that cannot be saved ends the writes
BatchWrittenUntilBad(cwt, bad) ==
    { cwt[n] : n \in { m \in 1..Len(cwt) : \A q \in 1..m : cwt[q] \notin bad } }

\* the clips saved by the parallel writes: each write has its own try/catch,
\* a clip with an invalid vector or a failing update is the only one left out
BatchWritten(cwt, bad) ==
    Range(cwt) \ bad

\* generateEmbeddingsBatch returns one vector per transcript; the clips in bad
\* have an invalid vector or fail to save, the others are saved
VBatchOk ==
    /\ pc = "batch"
    /\ \E bad \in SUBSET Range(local.cwt) :
           LET ok == BatchWritten(local.cwt, bad)
           IN  /\ clips' = [k \in 1..Len(clips) |->
                               IF k \in ok THEN [clips[k] EXCEPT !.embedding = Some("vec")]
                               ELSE clips[k]]
               /\ local' = [local EXCEPT !.clean = (ok = Range(local.cwt)), !.batch = "ok",
                                         !.bad = bad]
    /\ pc' = "checkCount"
    /\ UNCHANGED << videoDuration, status, vjob, ejobs, failedEvt, hist >>
    /\ UNCHANGED fnVars

\* the batch call throws (provider error, timeout, count mismatch)
VBatchFail ==
    /\ pc = "batch"
    /\ pc' = "fallback"
    /\ local' = [local EXCEPT !.i = 1, !.clean = FALSE, !.batch = "failed"]
    /\ UNCHANGED << videoDuration, status, clips, vjob, ejobs, failedEvt, hist >>
    /\ UNCHANGED fnVars

\* one turn of the fallback loop: the clip is queued, or queueing fails and
\* the clip is left out
VFallbackAdd ==
    /\ pc = "fallback"
    /\ \E added \in BOOLEAN :
           ejobs' = IF added THEN Append(ejobs, NewJob(local.cwt[local.i])) ELSE ejobs
    /\ IF local.i < Len(local.cwt)
       THEN /\ local' = [local EXCEPT !.i = @ + 1]
            /\ pc' = "fallback"
       ELSE /\ local' = local
            /\ pc' = "return"
    /\ UNCHANGED << videoDuration, status, clips, vjob, failedEvt, hist >>
    /\ UNCHANGED fnVars

\* the queueing loop of the other branch (no clip with a transcript, or more
\* than the threshold): one turn queues a clip, the turn after the last returns
VEnqueueAll ==
    /\ pc = "enqueueAll"
    /\ IF local.i <= Len(local.cwt)
       THEN /\ ejobs' = Append(ejobs, NewJob(local.cwt[local.i]))
            /\ local' = [local EXCEPT !.i = @ + 1]
            /\ pc' = "enqueueAll"
       ELSE /\ ejobs' = ejobs
            /\ local' = local
            /\ pc' = "return"
    /\ UNCHANGED << videoDuration, status, clips, vjob, failedEvt, hist >>
    /\ UNCHANGED fnVars

\* checkVideoCompletion of the batch path, first query: the pending count
VCheckCount ==
    /\ pc = "checkCount"
    /\ pc' = IF Cardinality(PendingClips(clips)) > 0 THEN "return" ELSE "checkUpdate"
    /\ UNCHANGED << videoDuration, status, clips, vjob, local, ejobs, failedEvt, hist >>
    /\ UNCHANGED fnVars

\* checkVideoCompletion of the batch path, second query: the guarded update
VCheckUpdate ==
    /\ pc = "checkUpdate"
    /\ IF ReadyGuard(status)
       THEN /\ status' = "READY"
            /\ hist' = [hist EXCEPT !.readyCount = @ + 1]
       ELSE UNCHANGED << status, hist >>
    /\ pc' = "return"
    /\ UNCHANGED << videoDuration, clips, vjob, local, ejobs, failedEvt >>
    /\ UNCHANGED fnVars

\* a query of checkVideoCompletion rejects in the batch path: its catch block
\* logs the error and the call returns
VCheckError ==
    /\ pc \in { "checkCount", "checkUpdate" }
    /\ pc' = "return"
    /\ local' = [local EXCEPT !.clean = FALSE]
    /\ UNCHANGED << videoDuration, status, clips, vjob, ejobs, failedEvt, hist >>
    /\ UNCHANGED fnVars

\* the processor returns: the job is completed
VReturn ==
    /\ pc = "return"
    /\ vjob' = [vjob EXCEPT !.state = "completed"]
    /\ pc' = "idle"
    /\ UNCHANGED << videoDuration, status, clips, local, ejobs, failedEvt, hist >>
    /\ UNCHANGED fnVars

\* the positions of the try block whose exceptions reach the outer catch
ThrowPcs ==
    { "setProcessing", "metadata", "createClips", "setTranscribing", "transcribe",
      "setEmbedding", "mapClip", "enqueueAll" }

\* a step of the try block throws (in the queueing loop only while a clip is
\* left to queue): the catch block writes FAILED and rethrows
VThrow ==
    /\ pc \in ThrowPcs
    /\ pc = "enqueueAll" => local.i <= Len(local.cwt)
    /\ status' = "FAILED"
    /\ vjob' = AfterThrow(vjob)
    /\ pc' = "idle"
    /\ local' = IdleLocal
    /\ failedEvt' = TRUE
    /\ UNCHANGED << videoDuration, clips, ejobs, hist >>
    /\ UNCHANGED fnVars

\* videoWorker.on('failed'): FAILED is written once more
VOnFailed ==
    /\ failedEvt
    /\ status' = "FAILED"
    /\ failedEvt' = FALSE
    /\ UNCHANGED << videoDuration, clips, vjob, pc, local, ejobs, hist >>
    /\ UNCHANGED fnVars

\* the worker dies during an attempt; the stalled job is delivered again
VCrash ==
    /\ vjob.state = "active"
    /\ vjob.crashes < MaxCrashes
    /\ vjob' = [vjob EXCEPT !.state = "waiting", !.crashes = @ + 1]
    /\ pc' = "idle"
    /\ local' = IdleLocal
    /\ UNCHANGED << videoDuration, status, clips, ejobs, failedEvt, hist >>
    /\ UNCHANGED fnVars

(* ---- the embedding worker ---- *)
\* generateEmbedding succeeds and the embedding is written to the clip
EWrite(j) ==
    /\ ejobs[j].state = "waiting"
    /\ clips' = [clips EXCEPT ![ejobs[j].clipId].embedding = Some("vec")]
    /\ ejobs' = [ejobs EXCEPT ![j].state = "written"]
    /\ UNCHANGED << videoDuration, status, vjob, pc, local, failedEvt, hist >>
    /\ UNCHANGED fnVars

\* generateEmbedding, the write, or the lookup of the clip after it throws:
\* the queue retries while attempts are left; embeddingWorker.on('failed')
\* only logs
EThrow(j) ==
    /\ ejobs[j].state \in { "waiting", "written" }
    /\ ejobs' = [ejobs EXCEPT ![j].attemptsMade = @ + 1,
                              ![j].state = IF ejobs[j].attemptsMade + 1 < EmbeddingAttempts
                                           THEN "waiting" ELSE "failed"]
    /\ UNCHANGED << videoDuration, status, clips, vjob, pc, local, failedEvt, hist >>
    /\ UNCHANGED fnVars

\* checkVideoCompletion of an embedding job, first query
ECount(j) ==
    /\ ejobs[j].state = "written"
    /\ ejobs' = [ejobs EXCEPT ![j].state =
                    IF Cardinality(PendingClips(clips)) > 0 THEN "completed" ELSE "update"]
    /\ UNCHANGED << videoDuration, status, clips, vjob, pc, local, failedEvt, hist >>
    /\ UNCHANGED fnVars

\* checkVideoCompletion of an embedding job, second query
EUpdate(j) ==
    /\ ejobs[j].state = "update"
    /\ IF ReadyGuard(status)
       THEN /\ status' = "READY"
            /\ hist' = [hist EXCEPT !.readyCount = @ + 1]
       ELSE UNCHANGED << status, hist >>
    /\ ejobs' = [ejobs EXCEPT ![j].state = "completed"]
    /\ UNCHANGED << videoDuration, clips, vjob, pc, local, failedEvt >>
    /\ UNCHANGED fnVars

\* a query of checkVideoCompletion rejects in an embedding job: the error is
\* logged and the job completes
ECheckError(j) ==
    /\ ejobs[j].state \in { "written", "update" }
    /\ ejobs' = [ejobs EXCEPT ![j].state = "completed", ![j].checkError = TRUE]
    /\ UNCHANGED << videoDuration, status, clips, vjob, pc, local, failedEvt, hist >>
    /\ UNCHANGED fnVars

EmbeddingWrite == \E j \in 1..Len(ejobs) : EWrite(j)
EmbeddingThrow == \E j \in 1..Len(ejobs) : EThrow(j)
EmbeddingCount == \E j \in 1..Len(ejobs) : ECount(j)
EmbeddingUpdate == \E j \in 1..Len(ejobs) : EUpdate(j)
EmbeddingCheckError == \E j \in 1..Len(ejobs) : ECheckError(j)

Next ==
    \/ VStart
    \/ VFindVideo
    \/ VFindThrow
    \/ VFileCheckOk
    \/ VFileCheckFail
    \/ VSetProcessing
    \/ VProbeDone
    \/ VThumbnailDone
    \/ VMetadata
    \/ VScenes
    \/ VCreateClips
    \/ VSetTranscribing
    \/ VTranscribe
    \/ VSetEmbedding
    \/ VMapClip
    \/ VBatchOk
    \/ VBatchFail
    \/ VFallbackAdd
    \/ VEnqueueAll
    \/ VCheckCount
    \/ VCheckUpdate
    \/ VCheckError
    \/ VReturn
    \/ VThrow
    \/ VOnFailed
    \/ EmbeddingWrite
    \/ EmbeddingThrow
    \/ EmbeddingCount
    \/ EmbeddingUpdate
    \/ EmbeddingCheckError

\* exceptions and the queue's retries, no worker crash
Spec == Init /\ [][Next]_vars

\* worker crashes and the queue's redelivery of the stalled job; the batch
\* call may fail and queueing may fail as before, but nothing is thrown out
\* of a processor and the queries of checkVideoCompletion succeed
NextCrash ==
    \/ VStart
    \/ VFindVideo
    \/ VFileCheckOk
    \/ VSetProcessing
    \/ VProbeDone
    \/ VThumbnailDone
    \/ VMetadata
    \/ VScenes
    \/ VCreateClips
    \/ VSetTranscribing
    \/ VTranscribe
    \/ VSetEmbedding
    \/ VMapClip
    \/ VBatchOk
    \/ VBatchFail
    \/ VFallbackAdd
    \/ VEnqueueAll
    \/ VCheckCount
    \/ VCheckUpdate
    \/ VReturn
    \/ VCrash
    \/ EmbeddingWrite
    \/ EmbeddingCount
    \/ EmbeddingUpdate

SpecCrash == Init /\ [][NextCrash]_vars

(* ------------------------------------------------------------------ *)
(* External tools that never exit                                      *)
(* ------------------------------------------------------------------ *)
\* the steps that await a spawned tool without any deadline: the join of
\* getVideoMetadata (ffprobe) and generateThumbnail (ffmpeg), and
\* extractAudio (ffmpeg) at the start of transcribeFullVideo
NoDeadlinePcs == { "metadata", "transcribe" }

\* the tool never emits close: the promise never settles and the processor
\* stays at its await for good.  The calls that have a deadline are covered
\* by the other actions: detectScenes (spawn timeout, then close), the batch
\* call (30 s race, VBatchFail), the transcription request (5 min race, VThrow)
VToolHangs ==
    /\ pc \in NoDeadlinePcs
    /\ pc' = "hung"
    /\ UNCHANGED << videoDuration, status, clips, vjob, local, ejobs, failedEvt, hist >>
    /\ UNCHANGED fnVars

NextHang ==
    \/ VStart
    \/ VFindVideo
    \/ VFindThrow
    \/ VFileCheckOk
    \/ VFileCheckFail
    \/ VSetProcessing
    \/ VProbeDone
    \/ VThumbnailDone
    \/ VMetadata
    \/ VScenes
    \/ VCreateClips
    \/ VSetTranscribing
    \/ VTranscribe
    \/ VSetEmbedding
    \/ VMapClip
    \/ VBatchOk
    \/ VBatchFail
    \/ VFallbackAdd
    \/ VEnqueueAll
    \/ VCheckCount
    \/ VCheckUpdate
    \/ VCheckError
    \/ VReturn
    \/ VThrow
    \/ VOnFailed
    \/ VToolHangs
    \/ EmbeddingWrite
    \/ EmbeddingThrow
    \/ EmbeddingCount
    \/ EmbeddingUpdate
    \/ EmbeddingCheckError

\* the event loop runs whatever is ready to run
SpecHang == Init /\ [][NextHang]_vars /\ WF_vars(NextHang)

(* ------------------------------------------------------------------ *)
(* Videos of many clips                                                *)
(* ------------------------------------------------------------------ *)
\* The video is cut every third second, so that SHORT_VIDEO_CLIP_THRESHOLD
\* clips or more can have a transcript.  The embedding worker is not running
\* yet: the jobs queued stay in the queue.
InitMany ==
    /\ FnIdle
    /\ videoDuration \in ManyDurations
    /\ status = "PROCESSING"
    /\ clips = << >>
    /\ vjob = [state |-> "waiting", attemptsMade |-> 0, crashes |-> 0]
    /\ pc = "idle"
    /\ local = IdleLocal
    /\ ejobs = << >>
    /\ failedEvt = FALSE
    /\ hist = [deliveries |-> 0, readyCount |-> 0, fatalAt |-> 0]

NextMany ==
    \/ VStart
    \/ VFindVideo
    \/ VFileCheckOk
    \/ VSetProcessing
    \/ VProbeDone
    \/ VThumbnailDone
    \/ VMetadata
    \/ VScenes
    \/ VCreateClips
    \/ VSetTranscribing
    \/ VTranscribe
    \/ VSetEmbedding
    \/ VMapClip
    \/ VBatchOk
    \/ VBatchFail
    \/ VFallbackAdd
    \/ VEnqueueAll
    \/ VCheckCount
    \/ VCheckUpdate
    \/ VReturn

\* one attempt that runs without an exception
SpecMany == InitMany /\ [][NextMany]_vars

\* the longer of the videos, after a first attempt of its job that failed at
\* the metadata probe
InitManyRetry ==
    /\ FnIdle
    /\ videoDuration = 36
    /\ status = "FAILED"
    /\ clips = << >>
    /\ vjob = [state |-> "waiting", attemptsMade |-> 1, crashes |-> 0]
    /\ pc = "idle"
    /\ local = IdleLocal
    /\ ejobs = << >>
    /\ failedEvt = FALSE
    /\ hist = [deliveries |-> 1, readyCount |-> 0, fatalAt |-> 0]

\* of the embedding jobs the first MaxRunningJobs are run
RunningJobs == 1..Min(Len(ejobs), MaxRunningJobs)

RunningWrite == \E j \in RunningJobs : EWrite(j)
RunningThrow == \E j \in RunningJobs : EThrow(j)
RunningCount == \E j \in RunningJobs : ECount(j)
RunningUpdate == \E j \in RunningJobs : EUpdate(j)

NextManyRetry ==
    \/ VStart
    \/ VFindVideo
    \/ VFileCheckOk
    \/ VSetProcessing
    \/ VProbeDone
    \/ VThumbnailDone
    \/ VMetadata
    \/ VScenes
    \/ VCreateClips
    \/ VSetTranscribing
    \/ VTranscribe
    \/ VSetEmbedding
    \/ VMapClip
    \/ VBatchOk
    \/ VBatchFail
    \/ VFallbackAdd
    \/ VEnqueueAll
    \/ VCheckCount
    \/ VCheckUpdate
    \/ VReturn
    \/ VThrow
    \/ VOnFailed
    \/ RunningWrite
    \/ RunningThrow
    \/ RunningCount
    \/ RunningUpdate

\* exceptions and the queue's retries
SpecManyRetry == InitManyRetry /\ [][NextManyRetry]_vars

(* ------------------------------------------------------------------ *)
(* A direct call of detectScenes, beside the first steps of the worker *)
(* ------------------------------------------------------------------ *)
\* the duration arguments of the direct call: none, and values around the
\* threshold
DetectDurations == { NULL } \cup { Some(d) : d \in { 0, 10, 30, 31, 40 } }

\* the time stamps the tool may report
CutTimes == { 0, 20, 35, 50 }

\* how the process ended when 'close' fires: exit code 0, another exit code,
\* or killed by the 60 s timeout of spawn; the handler reads none of them
ToolExits == { "ok", "failed", "killed" }

DetectTools ==
    { [kind |-> "error", exit |-> "failed", times |-> << >>] }
    \cup { [kind |-> "close", exit |-> e, times |-> t] :
             e \in ToolExits,
             t \in UNION { [1..n -> CutTimes] : n \in 0..MaxCutReports } }

InitScenes ==
    /\ scenesIn = << >>
    /\ durationIn = 0
    /\ minIn = 0
    /\ clipsOut = NULL
    /\ checkLog = << >>
    /\ detectIn \in [duration : DetectDurations, tool : DetectTools]
    /\ detectOut = NULL
    /\ HlIdle
    /\ UpIdle
    /\ TxIdle
    /\ SvcIdle
    /\ videoDuration \in Durations
    /\ status = "PROCESSING"
    /\ clips = << >>
    /\ vjob = [state |-> "waiting", attemptsMade |-> 0, crashes |-> 0]
    /\ pc = "idle"
    /\ local = IdleLocal
    /\ ejobs = << >>
    /\ failedEvt = FALSE
    /\ hist = [deliveries |-> 0, readyCount |-> 0, fatalAt |-> 0]

CallDetectScenes ==
    /\ detectOut = NULL
    /\ detectOut' = Some(detectScenes(detectIn.duration, detectIn.tool))
    /\ UNCHANGED << scenesIn, durationIn, minIn, clipsOut, checkLog, detectIn >>
    /\ UNCHANGED << hlVars, upVars, txVars, svcVars >>
    /\ UNCHANGED pipeVars

NextScenes ==
    \/ CallDetectScenes
    \/ VStart
    \/ VFindVideo
    \/ VFileCheckOk
    \/ VSetProcessing
    \/ VProbeDone
    \/ VThumbnailDone
    \/ VMetadata
    \/ VScenes

SpecScenes == InitScenes /\ [][NextScenes]_vars

(* ------------------------------------------------------------------ *)
(* Direct calls of checkVideoCompletion, one after the other           *)
(* ------------------------------------------------------------------ *)
Statuses == { "UPLOADING", "PROCESSING", "TRANSCRIBING", "EMBEDDING", "READY", "FAILED" }

\* the Clip rows as far as the pending count reads them
RowShapes ==
    [startTime : { 0 }, endTime : { 10 },
     transcript : { NULL, Some(<< >>), Some(<< "w1" >>) },
     embedding : { NULL, Some("vec") }, attempt : { 1 }]

InitCompletion ==
    /\ scenesIn = << >>
    /\ durationIn = 0
    /\ minIn = 0
    /\ clipsOut = NULL
    /\ checkLog = << >>
    /\ ExtIdle
    /\ videoDuration = 10
    /\ status \in Statuses
    /\ clips \in UNION { [1..n -> RowShapes] : n \in 0..MaxRows }
    /\ vjob = [state |-> "completed", attemptsMade |-> 0, crashes |-> 0]
    /\ pc = "idle"
    /\ local = IdleLocal
    /\ ejobs = << >>
    /\ failedEvt = FALSE
    /\ hist = [deliveries |-> 0, readyCount |-> 0, fatalAt |-> 0]

\* checkVideoCompletion run from its first line to its last: the count, the
\* early return when a clip is pending, the guarded update and its row count
CallCheckVideoCompletion ==
    /\ Len(checkLog) < MaxCalls
    /\ LET pendingClips == Cardinality(PendingClips(clips))
           updated == IF pendingClips = 0 /\ ReadyGuard(status) THEN 1 ELSE 0
           after == IF updated = 1 THEN "READY" ELSE status
       IN  /\ status' = after
           /\ checkLog' = Append(checkLog, [before |-> status, pending |-> pendingClips,
                                            updated |-> updated, after |-> after])
    /\ UNCHANGED << scenesIn, durationIn, minIn, clipsOut, extVars >>
    /\ UNCHANGED << videoDuration, clips, vjob, pc, local, ejobs, failedEvt, hist >>

NextCompletion == CallCheckVideoCompletion

SpecCompletion == InitCompletion /\ [][NextCompletion]_vars

(* ------------------------------------------------------------------ *)
(* Highlights: createHighlight, the rendering job and its files        *)
(* ------------------------------------------------------------------ *)
\* what a requested clip refers to: nothing, a Clip (clipId), a Video
\* (videoId), or both
ClipRefs == { "none", "clip", "video", "both" }

HighlightRequests == UNION { [1..n -> ClipRefs] : n \in 1..MaxHighlightClips }

\* clips.map((clip, index) => ({ ..., order: index, ... })): the rows of the
\* nested create; seg names the requested range
HighlightClipRows(req) ==
    { [order |-> i - 1, ref |-> req[i], seg |-> i] : i \in 1..Len(req) }

\* include: { clips: { orderBy: { order: 'asc' } } }
RECURSIVE OrderByOrderAsc(_)
OrderByOrderAsc(rows) ==
    IF rows = {} THEN << >>
    ELSE LET first == CHOOSE r \in rows : \A q \in rows : r.order <= q.order
         IN  << first >> \o OrderByOrderAsc(rows \ { first })

\* hClip.clip?.video?.path || hClip.video?.path, the rows being loaded with
\* include: { clip: true, video: true }: the Video of a row is loaded, the
\* Video of its Clip is not
HasVideoPath(row) == row.ref \in { "video", "both" }

\* faulty variant: READY is written without the output path
ReadyUpdateStatusOnly(h) ==
    [h EXCEPT !.status = "READY"]

\* data: { outputPath, status: 'READY' }
ReadyUpdate(h) ==
    [h EXCEPT !.outputPath = Some("output"), !.status = "READY"]

\* what the queue does with an attempt of the rendering job that threw
HAfterThrow(job) ==
    [job EXCEPT !.attemptsMade = @ + 1,
                !.state = IF job.attemptsMade + 1 < HighlightAttempts THEN "waiting" ELSE "failed"]

\* the temporary file of the running attempt for a row: a fresh uuid name
TempFile(row) == [attempt |-> hjob.attemptsMade + 1, seg |-> row.seg]

\* the segments of the files concatenated, in the order of the list
SegmentsOf(paths) == [k \in 1..Len(paths) |-> paths[k].seg]

InitHighlight ==
    /\ scenesIn = << >>
    /\ durationIn = 0
    /\ minIn = 0
    /\ clipsOut = NULL
    /\ checkLog = << >>
    /\ DetectIdle
    /\ hreq \in HighlightRequests
    /\ highlight = NULL
    /\ hjob = [state |-> "none", attemptsMade |-> 0]
    /\ hpc = "idle"
    /\ hlocal = HIdleLocal
    /\ disk = [temp |-> {}, output |-> NULL]
    /\ UpIdle
    /\ TxIdle
    /\ SvcIdle
    /\ PipeIdle

\* createHighlight: the Highlight and its rows are created, the job is queued
HCreate ==
    /\ highlight = NULL
    /\ highlight' = Some([status |-> "PENDING", outputPath |-> NULL,
                          clips |-> HighlightClipRows(hreq)])
    /\ hjob' = [state |-> "waiting", attemptsMade |-> 0]
    /\ UNCHANGED << hreq, hpc, hlocal, disk >>
    /\ UNCHANGED otherThanHl

\* the queue hands the job to the highlight worker
HStart ==
    /\ hjob.state = "waiting"
    /\ hjob' = [hjob EXCEPT !.state = "active"]
    /\ hpc' = "find"
    /\ hlocal' = HIdleLocal
    /\ UNCHANGED << hreq, highlight, disk >>
    /\ UNCHANGED otherThanHl

\* prisma.highlight.findUnique with the rows ordered by order
HFind ==
    /\ hpc = "find"
    /\ hlocal' = [hlocal EXCEPT !.rows = OrderByOrderAsc(highlight[1].clips)]
    /\ hpc' = "setProcessing"
    /\ UNCHANGED << hreq, highlight, hjob, disk >>
    /\ UNCHANGED otherThanHl

\* the update to PROCESSING, before the try block
HSetProcessing ==
    /\ hpc = "setProcessing"
    /\ highlight' = [highlight EXCEPT ![1].status = "PROCESSING"]
    /\ hlocal' = [hlocal EXCEPT !.i = 1]
    /\ hpc' = "extract"
    /\ UNCHANGED << hreq, hjob, disk >>
    /\ UNCHANGED otherThanHl

\* a query before the try block rejects: the call throws and writes no status
HThrowBeforeTry ==
    /\ hpc \in { "find", "setProcessing" }
    /\ hjob' = HAfterThrow(hjob)
    /\ hpc' = "idle"
    /\ UNCHANGED << hreq, highlight, hlocal, disk >>
    /\ UNCHANGED otherThanHl

\* a turn of the extraction loop for a row without a video path: continue
HSkipClip ==
    /\ hpc = "extract"
    /\ hlocal.i <= Len(hlocal.rows)
    /\ ~HasVideoPath(hlocal.rows[hlocal.i])
    /\ hlocal' = [hlocal EXCEPT !.i = @ + 1]
    /\ UNCHANGED << hreq, highlight, hjob, hpc, disk >>
    /\ UNCHANGED otherThanHl

\* a turn of the extraction loop: extractClip writes the temporary file
HExtractOk ==
    /\ hpc = "extract"
    /\ hlocal.i <= Len(hlocal.rows)
    /\ HasVideoPath(hlocal.rows[hlocal.i])
    /\ LET clipPath == TempFile(hlocal.rows[hlocal.i])
       IN  /\ disk' = [disk EXCEPT !.temp = @ \cup { clipPath }]
           /\ hlocal' = [hlocal EXCEPT !.i = @ + 1, !.clipPaths = Append(@, clipPath)]
    /\ UNCHANGED << hreq, highlight, hjob, hpc >>
    /\ UNCHANGED otherThanHl

\* extractClip rejects (the tool exits with an error); the file it was
\* writing may be left behind
HExtractFail ==
    /\ hpc = "extract"
    /\ hlocal.i <= Len(hlocal.rows)
    /\ HasVideoPath(hlocal.rows[hlocal.i])
    /\ \E partial \in BOOLEAN :
           disk' = IF partial
                   THEN [disk EXCEPT !.temp = @ \cup { TempFile(hlocal.rows[hlocal.i]) }]
                   ELSE disk
    /\ hpc' = "catch"
    /\ UNCHANGED << hreq, highlight, hjob, hlocal >>
    /\ UNCHANGED otherThanHl

\* after the loop: no file was extracted, 'No valid clips to process' is thrown
HNoClips ==
    /\ hpc = "extract"
    /\ hlocal.i > Len(hlocal.rows)
    /\ hlocal.clipPaths = << >>
    /\ hpc' = "catch"
    /\ UNCHANGED << hreq, highlight, hjob, hlocal, disk >>
    /\ UNCHANGED otherThanHl

\* concatenateClips: one file is copied, several are concatenated in the
\* order of the list
HConcatOk ==
    /\ hpc = "extract"
    /\ hlocal.i > Len(hlocal.rows)
    /\ hlocal.clipPaths # << >>
    /\ disk' = [disk EXCEPT !.output =
                   IF Len(hlocal.clipPaths) = 1
                   THEN Some(<< hlocal.clipPaths[1].seg >>)
                   ELSE Some(SegmentsOf(hlocal.clipPaths))]
    /\ hpc' = "cleanup"
    /\ UNCHANGED << hreq, highlight, hjob, hlocal >>
    /\ UNCHANGED otherThanHl

\* concatenateClips rejects
HConcatFail ==
    /\ hpc = "extract"
    /\ hlocal.i > Len(hlocal.rows)
    /\ hlocal.clipPaths # << >>
    /\ hpc' = "catch"
    /\ UNCHANGED << hreq, highlight, hjob, hlocal, disk >>
    /\ UNCHANGED otherThanHl

\* the cleanup loop after the concatenation: the files of the list are unlinked
HCleanup ==
    /\ hpc = "cleanup"
    /\ disk' = [disk EXCEPT !.temp = @ \ Range(hlocal.clipPaths)]
    /\ hpc' = "setReady"
    /\ UNCHANGED << hreq, highlight, hjob, hlocal >>
    /\ UNCHANGED otherThanHl

\* the update that stores the output path and READY
HSetReady ==
    /\ hpc = "setReady"
    /\ highlight' = [highlight EXCEPT ![1] = ReadyUpdate(@)]
    /\ hpc' = "return"
    /\ UNCHANGED << hreq, hjob, hlocal, disk >>
    /\ UNCHANGED otherThanHl

\* the update to READY rejects
HSetReadyFail ==
    /\ hpc = "setReady"
    /\ hpc' = "catch"
    /\ UNCHANGED << hreq, highlight, hjob, hlocal, disk >>
    /\ UNCHANGED otherThanHl

\* the catch block: FAILED is written and the error is rethrown; the worker
\* rethrows it to the queue
HCatch ==
    /\ hpc = "catch"
    /\ highlight' = [highlight EXCEPT ![1].status = "FAILED"]
    /\ hjob' = HAfterThrow(hjob)
    /\ hpc' = "idle"
    /\ UNCHANGED << hreq, hlocal, disk >>
    /\ UNCHANGED otherThanHl

\* generateHighlightVideo returns the output path: the job is completed
HReturn ==
    /\ hpc = "return"
    /\ hjob' = [hjob EXCEPT !.state = "completed"]
    /\ hpc' = "idle"
    /\ UNCHANGED << hreq, highlight, hlocal, disk >>
    /\ UNCHANGED otherThanHl

NextHighlight ==
    \/ HCreate
    \/ HStart
    \/ HFind
    \/ HSetProcessing
    \/ HThrowBeforeTry
    \/ HSkipClip
    \/ HExtractOk
    \/ HExtractFail
    \/ HNoClips
    \/ HConcatOk
    \/ HConcatFail
    \/ HCleanup
    \/ HSetReady
    \/ HSetReadyFail
    \/ HCatch
    \/ HReturn

SpecHighlight == InitHighlight /\ [][NextHighlight]_vars

(* ------------------------------------------------------------------ *)
(* Uploads: uploadChunk and finalizeUpload for one session             *)
(* ------------------------------------------------------------------ *)
\* the session as initializeUpload creates it, and the chunk requests to come
InitUpload ==
    /\ scenesIn = << >>
    /\ durationIn = 0
    /\ minIn = 0
    /\ clipsOut = NULL
    /\ checkLog = << >>
    /\ DetectIdle
    /\ HlIdle
    /\ \E size \in 1..MaxUploadSize :
           session = [deleted |-> FALSE, size |-> size, uploadedSize |-> 0, status |-> "pending"]
    /\ uploadFile = 0
    /\ videos = << >>
    /\ videoJobs = << >>
    /\ reqs = [r \in 1..MaxRequests |-> NewReq]
    /\ TxIdle
    /\ SvcIdle
    /\ PipeIdle

\* a PATCH request arrives with its Upload-Offset header and its body
UArrive(r) ==
    /\ reqs[r].pc = "new"
    /\ \E offset \in 0..MaxUploadSize, len \in 1..MaxUploadSize :
           reqs' = [reqs EXCEPT ![r] = [@ EXCEPT !.pc = "getSession", !.offset = offset, !.len = len]]
    /\ UNCHANGED << session, uploadFile, videos, videoJobs >>
    /\ UNCHANGED otherThanUp

\* the negation of: offset !== currentOffset
OffsetMatches(offset, currentOffset) ==
    offset = currentOffset

\* uploadChunk: getUploadSession and the offset check
UGetSession(r) ==
    /\ reqs[r].pc = "getSession"
    /\ reqs' = [reqs EXCEPT ![r] =
                   IF session.deleted
                   THEN [@ EXCEPT !.pc = "error", !.error = "notFound"]
                   ELSE IF ~OffsetMatches(reqs[r].offset, session.uploadedSize)
                   THEN [@ EXCEPT !.pc = "error", !.error = "invalidOffset"]
                   ELSE [@ EXCEPT !.pc = "append", !.currentOffset = session.uploadedSize]]
    /\ UNCHANGED << session, uploadFile, videos, videoJobs >>
    /\ UNCHANGED otherThanUp

\* the chunk is appended to the file
UAppend(r) ==
    /\ reqs[r].pc = "append"
    /\ uploadFile' = uploadFile + reqs[r].len
    /\ reqs' = [reqs EXCEPT ![r] = [@ EXCEPT !.pc = "update", !.appended = reqs[r].len]]
    /\ UNCHANGED << session, videos, videoJobs >>
    /\ UNCHANGED otherThanUp

\* prisma.uploadSession.update: the new size and status, from the values
\* read at the start of the request; it rejects when the row is gone
UUpdate(r) ==
    /\ reqs[r].pc = "update"
    /\ LET newUploadedSize == reqs[r].currentOffset + reqs[r].len
           complete == newUploadedSize >= session.size
       IN  IF session.deleted
           THEN /\ reqs' = [reqs EXCEPT ![r] = [@ EXCEPT !.pc = "error", !.error = "rejected"]]
                /\ UNCHANGED session
           ELSE /\ session' = [session EXCEPT !.uploadedSize = newUploadedSize,
                                              !.status = IF complete THEN "complete" ELSE "uploading"]
                /\ reqs' = [reqs EXCEPT ![r] = [@ EXCEPT !.complete = complete,
                                                         !.grew = Some(newUploadedSize - session.uploadedSize),
                                                         !.pc = IF complete THEN "finalize" ELSE "done"]]
    /\ UNCHANGED << uploadFile, videos, videoJobs >>
    /\ UNCHANGED otherThanUp

\* finalizeUpload: getUploadSession and the status check
UFinalizeGet(r) ==
    /\ reqs[r].pc = "finalize"
    /\ reqs' = [reqs EXCEPT ![r] =
                   IF session.deleted THEN [@ EXCEPT !.pc = "error", !.error = "notFound"]
                   ELSE IF session.status # "complete"
                   THEN [@ EXCEPT !.pc = "error", !.error = "notComplete"]
                   ELSE [@ EXCEPT !.pc = "createVideo"]]
    /\ UNCHANGED << session, uploadFile, videos, videoJobs >>
    /\ UNCHANGED otherThanUp

\* prisma.video.create with status PROCESSING
UCreateVideo(r) ==
    /\ reqs[r].pc = "createVideo"
    /\ videos' = Append(videos, [status |-> "PROCESSING", uploadedSize |-> session.uploadedSize])
    /\ reqs' = [reqs EXCEPT ![r] = [@ EXCEPT !.pc = "deleteSession", !.videoId = Len(videos) + 1]]
    /\ UNCHANGED << session, uploadFile, videoJobs >>
    /\ UNCHANGED otherThanUp

\* prisma.uploadSession.delete; it rejects when the row is gone
UDeleteSession(r) ==
    /\ reqs[r].pc = "deleteSession"
    /\ IF session.deleted
       THEN /\ reqs' = [reqs EXCEPT ![r] = [@ EXCEPT !.pc = "error", !.error = "rejected"]]
            /\ UNCHANGED session
       ELSE /\ session' = [session EXCEPT !.deleted = TRUE]
            /\ reqs' = [reqs EXCEPT ![r].pc = "enqueue"]
    /\ UNCHANGED << uploadFile, videos, videoJobs >>
    /\ UNCHANGED otherThanUp

\* videoQueue.add('process-video', { videoId, path })
UEnqueue(r) ==
    /\ reqs[r].pc = "enqueue"
    /\ videoJobs' = Append(videoJobs, [videoId |-> reqs[r].videoId])
    /\ reqs' = [reqs EXCEPT ![r].pc = "done"]
    /\ UNCHANGED << session, uploadFile, videos >>
    /\ UNCHANGED otherThanUp

Arrive == \E r \in 1..Len(reqs) : UArrive(r)
ChunkGetSession == \E r \in 1..Len(reqs) : UGetSession(r)
ChunkAppend == \E r \in 1..Len(reqs) : UAppend(r)
ChunkUpdate == \E r \in 1..Len(reqs) : UUpdate(r)
FinalizeGet == \E r \in 1..Len(reqs) : UFinalizeGet(r)
FinalizeCreateVideo == \E r \in 1..Len(reqs) : UCreateVideo(r)
FinalizeDeleteSession == \E r \in 1..Len(reqs) : UDeleteSession(r)
FinalizeEnqueue == \E r \in 1..Len(reqs) : UEnqueue(r)

NextUpload ==
    \/ Arrive
    \/ ChunkGetSession
    \/ ChunkAppend
    \/ ChunkUpdate
    \/ FinalizeGet
    \/ FinalizeCreateVideo
    \/ FinalizeDeleteSession
    \/ FinalizeEnqueue

SpecUpload == InitUpload /\ [][NextUpload]_vars

(* ------------------------------------------------------------------ *)
(* OpenAITranscriptionProvider.transcribe and transcribeInChunks       *)
(* ------------------------------------------------------------------ *)
\* Sizes are whole megabytes and times whole seconds; the durations of the
\* inputs are multiples of every chunk count that occurs, so duration /
\* numChunks is exact.

\* Math.ceil(a / b) for positive b
CeilDiv(a, b) == (a + b - 1) \div b

\* faulty variant: the chunks are counted from 1 when their start is computed
ChunkStartOneBased(i, chunkDuration) ==
    (i + 1) * chunkDuration

\* const startTime = i * chunkDuration, for the 0-based index i
ChunkStart(i, chunkDuration) ==
    i * chunkDuration

\* the segments of a response, moved by the start of their chunk
OffsetSegments(segs, startTime) ==
    [k \in 1..Len(segs) |->
        [start |-> segs[k].start + startTime, end |-> segs[k].end + startTime,
         text |-> segs[k].text]]

\* allSegments.sort((a, b) => a.start - b.start): a stable sort by start
RECURSIVE InsertByStart(_, _)
InsertByStart(sorted, seg) ==
    IF sorted = << >> THEN << seg >>
    ELSE IF seg.start < Head(sorted).start THEN << seg >> \o sorted
    ELSE << Head(sorted) >> \o InsertByStart(Tail(sorted), seg)

RECURSIVE SortByStart(_)
SortByStart(segs) ==
    IF segs = << >> THEN << >>
    ELSE InsertByStart(SortByStart(SubSeq(segs, 1, Len(segs) - 1)), segs[Len(segs)])

\* segments.reduce((acc, s) => Math.max(acc, s.end), 0)
RECURSIVE MaxEnd(_)
MaxEnd(segs) == IF segs = << >> THEN 0 ELSE Max(Head(segs).end, MaxEnd(Tail(segs)))

\* the loop of transcribeInChunks from chunk i (0-based) on: the chunks cut
\* and the segments collected
RECURSIVE ChunkLoop(_, _, _, _, _, _)
ChunkLoop(i, numChunks, chunkDuration, duration, responses, acc) ==
    IF i >= numChunks THEN acc
    ELSE LET startTime == ChunkStart(i, chunkDuration)
             endTime == Min((i + 1) * chunkDuration, duration)
         IN  ChunkLoop(i + 1, numChunks, chunkDuration, duration, responses,
                       [chunks |-> Append(acc.chunks, [startTime |-> startTime,
                                                       length |-> endTime - startTime]),
                        segments |-> acc.segments \o OffsetSegments(responses[i + 1], startTime)])

transcribeInChunks(size, duration, responses) ==
    LET numChunks == CeilDiv(size, TARGET_CHUNK_SIZE)
        chunkDuration == duration \div numChunks
        done == ChunkLoop(0, numChunks, chunkDuration, duration, responses,
                          [chunks |-> << >>, segments |-> << >>])
        allSegments == SortByStart(done.segments)
    IN  [chunks |-> done.chunks, segments |-> allSegments, duration |-> MaxEnd(allSegments)]

\* transcribe: a file over the limit is split, any other is sent as it is
transcribe(size, duration, responses) ==
    IF size > MAX_FILE_SIZE
    THEN transcribeInChunks(size, duration, responses)
    ELSE [chunks |-> << >>, segments |-> responses[1], duration |-> MaxEnd(responses[1])]

\* sizes around the limit and around the multiples of the chunk size
AudioSizes == { 20, 25, 26, 40, 41, 60 }

AudioDurations == { 6, 12 }

\* what the API may answer for one request: segments within the first two
\* seconds of what it was sent, in time order or not
ChunkResponses ==
    { << >>,
      << Seg(0, 1, << "a" >>) >>,
      << Seg(1, 2, << "b" >>) >>,
      << Seg(0, 1, << "a" >>), Seg(1, 2, << "b" >>) >>,
      << Seg(1, 2, << "b" >>), Seg(0, 1, << "a" >>) >> }

\* most requests made for one file (a file of AudioSizes takes up to three)
MostChunks == 3

InitTranscribe ==
    /\ scenesIn = << >>
    /\ durationIn = 0
    /\ minIn = 0
    /\ clipsOut = NULL
    /\ checkLog = << >>
    /\ DetectIdle
    /\ HlIdle
    /\ UpIdle
    /\ txIn \in [size : AudioSizes, duration : AudioDurations,
                 responses : [1..MostChunks -> ChunkResponses]]
    /\ txChunks = << >>
    /\ txOut = NULL
    /\ SvcIdle
    /\ PipeIdle

CallTranscribe ==
    /\ txOut = NULL
    /\ LET result == transcribe(txIn.size, txIn.duration, txIn.responses)
       IN  /\ txChunks' = result.chunks
           /\ txOut' = Some([segments |-> result.segments, duration |-> result.duration])
    /\ UNCHANGED txIn
    /\ UNCHANGED otherThanTx

NextTranscribe == CallTranscribe

SpecTranscribe == InitTranscribe /\ [][NextTranscribe]_vars

(* ------------------------------------------------------------------ *)
(* WhisperCppProvider.transcribe                                       *)
(* ------------------------------------------------------------------ *)
\* what the inference service may do with the request: the request fails
\* (fetch rejects), the status is not 2xx, the body is not JSON (json()
\* rejects), or the body parses to data
WhisperReplyKinds == { "unreachable", "status", "malformed", "json" }

\* the bodies that parse
WhisperData ==
    [segKind : { "absent", "array", "other" }, items : ChunkResponses,
     text : { NULL, Some(<< >>), Some(<< "w1" >>) }]

WhisperResult(segments, duration) ==
    [threw |-> FALSE, segments |-> segments, duration |-> duration]

\* the result of the catch block
WhisperEmpty == WhisperResult(<< >>, 0)

\* segments.length === 0 && data.text: the text is present and not ""
FallbackApplies(segments, text) ==
    Len(segments) = 0 /\ text # NULL /\ text[1] # << >>

\* the try block once the body is parsed
WhisperFromData(data) ==
    IF data.segKind = "other"
    THEN \* length and reduce of a value that is no array: a TypeError, caught
         WhisperEmpty
    ELSE LET given == IF data.segKind = "array" THEN data.items ELSE << >>
             segments == IF FallbackApplies(given, data.text)
                         THEN << Seg(0, 0, data.text[1]) >> ELSE given
         IN  WhisperResult(segments, MaxEnd(segments))

\* transcribe: readFileSync runs before the try block, so its exception
\* leaves the call; whatever fails inside the try block is caught
WhisperTranscribe(readable, reply) ==
    IF ~readable THEN [threw |-> TRUE, segments |-> << >>, duration |-> 0]
    ELSE IF reply.kind # "json" THEN WhisperEmpty
    ELSE WhisperFromData(reply.data)

WhisperReplies ==
    { [kind |-> k, data |-> NoData] : k \in WhisperReplyKinds \ { "json" } }
    \cup { [kind |-> "json", data |-> d] : d \in WhisperData }

InitWhisper ==
    /\ scenesIn = << >>
    /\ durationIn = 0
    /\ minIn = 0
    /\ clipsOut = NULL
    /\ checkLog = << >>
    /\ DetectIdle
    /\ HlIdle
    /\ UpIdle
    /\ TxIdle
    /\ whisperIn \in [readable : BOOLEAN, reply : WhisperReplies]
    /\ whisperOut = NULL
    /\ EmbedIdle
    /\ AuthIdle
    /\ MapIdle
    /\ CloudIdle
    /\ DelIdle
    /\ LoadIdle
    /\ PipeIdle

CallWhisperTranscribe ==
    /\ whisperOut = NULL
    /\ whisperOut' = Some(WhisperTranscribe(whisperIn.readable, whisperIn.reply))
    /\ UNCHANGED << whisperIn, scenesIn, durationIn, minIn, clipsOut, checkLog >>
    /\ UNCHANGED << detectVars, hlVars, upVars, txVars, pipeVars >>
    /\ UNCHANGED << embedVars, authVars, mapVars, cloudVars, delVars, loadVars >>

NextWhisper == CallWhisperTranscribe

SpecWhisper == InitWhisper /\ [][NextWhisper]_vars

(* ------------------------------------------------------------------ *)
(* The embedding providers: embedBatch                                 *)
(* ------------------------------------------------------------------ *)
\* A text is "" (empty), " " (white space only) or a word.  The backend
\* answers a batch request with one vector per text ("ok"), with one vector
\* too few ("short"), or the request fails ("throw"); a request for a single
\* text succeeds or fails (single[i] for the text at position i).

BlankTexts == { "", " " }

EmbedTexts == BlankTexts \cup { "a", "b" }

\* the negation of: t && t.trim().length > 0
IsBlank(t) == t \in BlankTexts

\* the vector the backend computes for a text it is sent (never empty)
Vec(t) == << t >>

EmbeddingResult(embedding, text) == [embedding |-> embedding, text |-> text]

EmbedOutcome(threw, results, sent) == [threw |-> threw, results |-> results, sent |-> sent]

\* texts.filter(t => t && t.trim().length > 0)
RECURSIVE ValidTexts(_)
ValidTexts(texts) ==
    IF texts = << >> THEN << >>
    ELSE (IF IsBlank(Head(texts)) THEN << >> ELSE << Head(texts) >>) \o ValidTexts(Tail(texts))

\* the vectors a batch request for the texts given returns
RECURSIVE BatchVectors(_)
BatchVectors(given) ==
    IF given = << >> THEN << >> ELSE << Vec(Head(given)) >> \o BatchVectors(Tail(given))

BackendBatch(given, batch) ==
    IF batch = "ok" \/ given = << >> THEN BatchVectors(given)
    ELSE BatchVectors(SubSeq(given, 1, Len(given) - 1))

\* the loop that maps the vectors back to the positions of the texts
RECURSIVE MapBack(_, _, _)
MapBack(texts, embeddings, validIndex) ==
    IF texts = << >> THEN << >>
    ELSE IF ~IsBlank(Head(texts))
    THEN << EmbeddingResult(embeddings[validIndex], Head(texts)) >>
         \o MapBack(Tail(texts), embeddings, validIndex + 1)
    ELSE << EmbeddingResult(<< >>, Head(texts)) >>
         \o MapBack(Tail(texts), embeddings, validIndex)

\* the catch block of TransformersJsProvider.embedBatch: embed(text) for
\* every text of the call, an empty vector where embed throws
RECURSIVE SequentialFallback(_, _, _)
SequentialFallback(texts, single, i) ==
    IF i > Len(texts) THEN [results |-> << >>, sent |-> << >>]
    ELSE LET rest == SequentialFallback(texts, single, i + 1)
         IN  [results |-> << EmbeddingResult(IF single[i] THEN Vec(texts[i]) ELSE << >>, texts[i]) >>
                          \o rest.results,
              sent |-> << << texts[i] >> >> \o rest.sent]

TransformersEmbedBatch(texts, batch, single) ==
    LET validTexts == ValidTexts(texts)
    IN  IF Len(texts) = 0 THEN EmbedOutcome(FALSE, << >>, << >>)
        ELSE IF Len(validTexts) = 0
        THEN EmbedOutcome(FALSE, MapBack(texts, << >>, 1), << >>)
        ELSE IF batch = "ok"
        THEN EmbedOutcome(FALSE, MapBack(texts, BackendBatch(validTexts, batch), 1),
                          << validTexts >>)
        ELSE \* the request fails, or the count check throws: the catch block
             LET fallback == SequentialFallback(texts, single, 1)
             IN  EmbedOutcome(FALSE, fallback.results, << validTexts >> \o fallback.sent)

\* response.data.map((item, index) => ({ embedding, text: texts[index] }))
OpenAIEmbedBatch(texts, batch) ==
    IF batch = "throw" THEN EmbedOutcome(TRUE, << >>, << texts >>)
    ELSE LET data == BackendBatch(texts, batch)
         IN  EmbedOutcome(FALSE,
                          [k \in 1..Len(data) |-> EmbeddingResult(data[k], texts[k])],
                          << texts >>)

embedBatch(provider, texts, batch, single) ==
    IF provider = "openai" THEN OpenAIEmbedBatch(texts, batch)
    ELSE TransformersEmbedBatch(texts, batch, single)

EmbedInputs ==
    UNION { [provider : { "transformers", "openai" }, texts : [1..n -> EmbedTexts],
             batch : { "ok", "short", "throw" }, single : [1..n -> BOOLEAN]] :
            n \in 0..MaxTexts }

InitEmbedBatch ==
    /\ scenesIn = << >>
    /\ durationIn = 0
    /\ minIn = 0
    /\ clipsOut = NULL
    /\ checkLog = << >>
    /\ DetectIdle
    /\ HlIdle
    /\ UpIdle
    /\ TxIdle
    /\ WhisperIdle
    /\ embedIn \in EmbedInputs
    /\ embedOut = NULL
    /\ embedSent = << >>
    /\ AuthIdle
    /\ MapIdle
    /\ CloudIdle
    /\ DelIdle
    /\ LoadIdle
    /\ PipeIdle

CallEmbedBatch ==
    /\ embedOut = NULL
    /\ LET done == embedBatch(embedIn.provider, embedIn.texts, embedIn.batch, embedIn.single)
       IN  /\ embedOut' = Some([threw |-> done.threw, results |-> done.results])
           /\ embedSent' = done.sent
    /\ UNCHANGED << embedIn, scenesIn, durationIn, minIn, clipsOut, checkLog >>
    /\ UNCHANGED << detectVars, hlVars, upVars, txVars, pipeVars >>
    /\ UNCHANGED << whisperVars, authVars, mapVars, cloudVars, delVars, loadVars >>

NextEmbedBatch == CallEmbedBatch

SpecEmbedBatch == InitEmbedBatch /\ [][NextEmbedBatch]_vars

(* ------------------------------------------------------------------ *)
(* AuthService.refreshToken and generateTokens                         *)
(* ------------------------------------------------------------------ *)
\* The calls are made with one token of one user.  RefreshToken.token is a
\* unique column (it is the key of findUnique and of delete in logout).

\* the time at which the calls start
Now0 == RefreshLifetime + 1

\* the row generateTokens stores for a token signed at now
TokenRow(id, now) == [id |-> id, token |-> SignRefresh(now), expiresAt |-> now + RefreshLifetime]

\* a call that has not started
NewCall == [pc |-> "new", storedId |-> 0, newToken |-> NULL]

\* findUnique({ where: { token } }): the rows with the token (none or one)
RowsWithToken(rows, token) == { k \in 1..Len(rows) : rows[k].token = token }

RowsWithId(rows, id) == { k \in 1..Len(rows) : rows[k].id = id }

\* the rows without the row of the id
RECURSIVE WithoutId(_, _)
WithoutId(rows, id) ==
    IF rows = << >> THEN << >>
    ELSE (IF Head(rows).id = id THEN << >> ELSE << Head(rows) >>) \o WithoutId(Tail(rows), id)

\* jwt.verify(token, refreshSecret): the signature is the service's own, so
\* it fails once the token's exp has been reached
JwtValid(token, now) == now < token.iat + JwtRefreshExpiry

\* prisma.refreshToken.delete({ where: { id } }) rejects when no row has the id
DeleteRejects(rows, id) ==
    RowsWithId(rows, id) = {}

\* tokens.slice(5) of the rows ordered by createdAt desc: the rows deleted
\* by the cleanup are all but the newest KeepTokens
AfterCleanup(rows) ==
    IF Len(rows) > KeepTokens THEN SubSeq(rows, Len(rows) - KeepTokens + 1, Len(rows)) ELSE rows

\* the token was signed long ago (its row has expired), a life time ago (the
\* row is in date, the JWT is not), a second ago, or in this very second
IssueTimes == { 0, 1, Now0 - 1, Now0 }

InitAuth ==
    /\ scenesIn = << >>
    /\ durationIn = 0
    /\ minIn = 0
    /\ clipsOut = NULL
    /\ checkLog = << >>
    /\ DetectIdle
    /\ HlIdle
    /\ UpIdle
    /\ TxIdle
    /\ WhisperIdle
    /\ EmbedIdle
    /\ clock = Now0
    /\ \E issued \in IssueTimes :
           /\ rtRows = << TokenRow(1, issued) >>
           /\ rtArg = SignRefresh(issued)
    /\ rtNextId = 2
    /\ rtReqs = [r \in 1..MaxRefreshCalls |-> NewCall]
    /\ MapIdle
    /\ CloudIdle
    /\ DelIdle
    /\ LoadIdle
    /\ PipeIdle

otherThanAuth ==
    << scenesIn, durationIn, minIn, clipsOut, checkLog, detectVars, hlVars, upVars, txVars,
       whisperVars, embedVars, mapVars, cloudVars, delVars, loadVars, pipeVars >>

\* a second passes
Tick ==
    /\ clock < Now0 + MaxTicks
    /\ clock' = clock + 1
    /\ UNCHANGED << rtRows, rtNextId, rtArg, rtReqs >>
    /\ UNCHANGED otherThanAuth

\* refreshToken(token) is called
RCall(r) ==
    /\ rtReqs[r].pc = "new"
    /\ rtReqs' = [rtReqs EXCEPT ![r].pc = "find"]
    /\ UNCHANGED << clock, rtRows, rtNextId, rtArg >>
    /\ UNCHANGED otherThanAuth

\* findUnique and the checks that follow it: no row, the row has expired,
\* the JWT does not verify, or all is well
RFind(r) ==
    /\ rtReqs[r].pc = "find"
    /\ LET found == RowsWithToken(rtRows, rtArg)
       IN  IF found = {}
           THEN rtReqs' = [rtReqs EXCEPT ![r].pc = "error"]
           ELSE LET storedToken == rtRows[CHOOSE k \in found : TRUE]
                IN  rtReqs' = [rtReqs EXCEPT ![r] =
                        [@ EXCEPT !.storedId = storedToken.id,
                                  !.pc = IF storedToken.expiresAt < clock \/ ~JwtValid(rtArg, clock)
                                         THEN "deleteInvalid" ELSE "delete"]]
    /\ UNCHANGED << clock, rtRows, rtNextId, rtArg >>
    /\ UNCHANGED otherThanAuth

\* the row of an expired or unverifiable token is deleted and the call throws
RDeleteInvalid(r) ==
    /\ rtReqs[r].pc = "deleteInvalid"
    /\ rtRows' = WithoutId(rtRows, rtReqs[r].storedId)
    /\ rtReqs' = [rtReqs EXCEPT ![r].pc = "error"]
    /\ UNCHANGED << clock, rtNextId, rtArg >>
    /\ UNCHANGED otherThanAuth

\* the rotation: the old row is deleted; generateTokens then signs the new
\* tokens and sends the insert of the new row
RDelete(r) ==
    /\ rtReqs[r].pc = "delete"
    /\ IF DeleteRejects(rtRows, rtReqs[r].storedId)
       THEN /\ rtReqs' = [rtReqs EXCEPT ![r].pc = "error"]
            /\ UNCHANGED rtRows
       ELSE /\ rtRows' = WithoutId(rtRows, rtReqs[r].storedId)
            /\ rtReqs' = [rtReqs EXCEPT ![r] =
                              [@ EXCEPT !.pc = "create", !.newToken = Some(SignRefresh(clock))]]
    /\ UNCHANGED << clock, rtNextId, rtArg >>
    /\ UNCHANGED otherThanAuth

\* prisma.refreshToken.create: it rejects when a row holds the same token
RCreate(r) ==
    /\ rtReqs[r].pc = "create"
    /\ LET token == rtReqs[r].newToken[1]
       IN  IF RowsWithToken(rtRows, token) # {}
           THEN /\ rtReqs' = [rtReqs EXCEPT ![r].pc = "error"]
                /\ UNCHANGED << rtRows, rtNextId >>
           ELSE /\ rtRows' = Append(rtRows, TokenRow(rtNextId, token.iat))
                /\ rtNextId' = rtNextId + 1
                /\ rtReqs' = [rtReqs EXCEPT ![r].pc = "cleanup"]
    /\ UNCHANGED << clock, rtArg >>
    /\ UNCHANGED otherThanAuth

\* the cleanup of generateTokens; the call then returns the new tokens
RCleanup(r) ==
    /\ rtReqs[r].pc = "cleanup"
    /\ rtRows' = AfterCleanup(rtRows)
    /\ rtReqs' = [rtReqs EXCEPT ![r].pc = "done"]
    /\ UNCHANGED << clock, rtNextId, rtArg >>
    /\ UNCHANGED otherThanAuth

RefreshCall == \E r \in 1..Len(rtReqs) : RCall(r)
RefreshFind == \E r \in 1..Len(rtReqs) : RFind(r)
RefreshDeleteInvalid == \E r \in 1..Len(rtReqs) : RDeleteInvalid(r)
RefreshDelete == \E r \in 1..Len(rtReqs) : RDelete(r)
RefreshCreate == \E r \in 1..Len(rtReqs) : RCreate(r)
RefreshCleanup == \E r \in 1..Len(rtReqs) : RCleanup(r)

NextAuth ==
    \/ Tick
    \/ RefreshCall
    \/ RefreshFind
    \/ RefreshDeleteInvalid
    \/ RefreshDelete
    \/ RefreshCreate
    \/ RefreshCleanup

SpecAuth == InitAuth /\ [][NextAuth]_vars

(* ------------------------------------------------------------------ *)
(* The transcript mapping of one clip                                  *)
(* ------------------------------------------------------------------ *)
\* one turn of the mapping loop of the video worker, called on its own: the
\* segments of a transcription (the zero-length segment of the whisper.cpp
\* fallback among them) and one clip

MaxMapTime == 3
MaxMapSegments == 2

MapTexts == { << >>, << "w1" >>, << "w2" >> }

\* the pairs a <= b of whole seconds
MapSpans ==
    { p \in (0..MaxMapTime) \X (0..MaxMapTime) : p[1] <= p[2] }

MapSegments ==
    { Seg(p[1], p[2], t) : p \in MapSpans, t \in MapTexts }

MapClips ==
    { [startTime |-> p[1], endTime |-> p[2]] : p \in MapSpans }

\* overlappingSegments: the positions of the segments the filter keeps
OverlappingSegments(segs, clip) ==
    { n \in 1..Len(segs) : Overlaps(segs[n], clip) }

InitMapping ==
    /\ scenesIn = << >>
    /\ durationIn = 0
    /\ minIn = 0
    /\ clipsOut = NULL
    /\ checkLog = << >>
    /\ DetectIdle
    /\ HlIdle
    /\ UpIdle
    /\ TxIdle
    /\ WhisperIdle
    /\ EmbedIdle
    /\ AuthIdle
    /\ mapSegs \in UNION { [1..n -> MapSegments] : n \in 0..MaxMapSegments }
    /\ mapClip \in MapClips
    /\ mapOut = NULL
    /\ CloudIdle
    /\ DelIdle
    /\ LoadIdle
    /\ PipeIdle

CallMapSegments ==
    /\ mapOut = NULL
    /\ mapOut' = Some([assigned |-> OverlappingSegments(mapSegs, mapClip),
                       transcript |-> JoinTexts(mapSegs, mapClip)])
    /\ UNCHANGED << mapSegs, mapClip, scenesIn, durationIn, minIn, clipsOut, checkLog >>
    /\ UNCHANGED << detectVars, hlVars, upVars, txVars, pipeVars >>
    /\ UNCHANGED << whisperVars, embedVars, authVars, cloudVars, delVars, loadVars >>

NextMapping == CallMapSegments

SpecMapping == InitMapping /\ [][NextMapping]_vars

(* ------------------------------------------------------------------ *)
(* OpenAITranscriptionProvider.transcribe: the retry loop              *)
(* ------------------------------------------------------------------ *)
\* A call on a file of cloudIn.size megabytes.  cloudIn.replies[n] is what
\* the API answers to the n-th request of the retry loop, cloudIn.fileOk[n]
\* whether the file check of the n-th turn passes.  An error is a record of
\* its HTTP status (NULL when it has none), its code and what its message
\* holds.

maxRetries == 3

\* the errors of the client library and of the turn itself
ErrAuth == [status |-> Some(401), code |-> "", message |-> "other"]
ErrRateLimit == [status |-> Some(429), code |-> "", message |-> "other"]
ErrTooLarge == [status |-> Some(413), code |-> "", message |-> "other"]
ErrServer == [status |-> Some(500), code |-> "", message |-> "other"]
ErrConnection == [status |-> NULL, code |-> "", message |-> "Connection error"]
ErrReset == [status |-> NULL, code |-> "ECONNRESET", message |-> "other"]
ErrTimeout == [status |-> NULL, code |-> "", message |-> "timeout"]
\* thrown by the file check of a turn: new Error('File not found or invalid')
ErrFile == [status |-> NULL, code |-> "", message |-> "other"]

\* a request answered with the transcription
ReplyOk == [status |-> Some(200), code |-> "", message |-> "ok"]

ApiErrors == { ErrAuth, ErrRateLimit, ErrTooLarge, ErrServer, ErrConnection, ErrReset, ErrTimeout }

ConnectionCodes == { "ECONNREFUSED", "ETIMEDOUT", "ENOTFOUND", "ECONNRESET", "ENETUNREACH", "EAI_AGAIN" }

\* faulty variant: every error is taken for a connection error
IsConnectionErrorAlways(error) ==
    TRUE

\* isConnectionError of the catch block of a turn
IsConnectionError(error) ==
    \/ error.code \in ConnectionCodes
    \/ error.message \in { "Connection error", "network", "fetch failed" }
    \/ error.status = NULL

\* Math.min(1000 * Math.pow(2, attempt - 1), 5000), in seconds
WaitTime(attempt) ==
    Min(2 ^ (attempt - 1), 5)

\* the error thrown after the loop, by the branch of the classification taken
FinalError(error) ==
    IF \/ error.code \in { "ECONNREFUSED", "ETIMEDOUT", "ENOTFOUND", "ECONNRESET" }
       \/ error.message \in { "Connection error", "network" }
       \/ error.status = NULL
    THEN "connection"
    ELSE IF error.status = Some(429) THEN "rateLimit"
    ELSE IF error.code = "ECONNABORTED" \/ error.message = "timeout" THEN "timeout"
    ELSE IF error.status = Some(401) THEN "auth"
    ELSE "rethrown"

\* error?.status === 413 || error?.message?.includes('too large')
IsTooLarge(error) ==
    error.status = Some(413) \/ error.message = "too large"

\* the for loop from turn attempt on; acc collects the requests made, the
\* waits and the last error
RECURSIVE RetryLoop(_, _, _, _)
RetryLoop(attempt, replies, fileOk, acc) ==
    IF attempt > maxRetries THEN acc
    ELSE LET sent == fileOk[attempt]
             reply == IF sent THEN replies[attempt] ELSE ErrFile
             requests == IF sent THEN Append(acc.requests, reply) ELSE acc.requests
         IN  IF reply = ReplyOk
             THEN [acc EXCEPT !.requests = requests, !.returned = TRUE, !.turns = attempt]
             ELSE IF IsConnectionError(reply) /\ attempt < maxRetries
             THEN RetryLoop(attempt + 1, replies, fileOk,
                            [acc EXCEPT !.requests = requests, !.lastError = Some(reply),
                                        !.waits = Append(@, WaitTime(attempt)),
                                        !.turns = attempt])
             ELSE [acc EXCEPT !.requests = requests, !.lastError = Some(reply), !.turns = attempt]

\* the chunks transcribeInChunks cuts from a file (its requests all answered)
CloudChunks(size) ==
    transcribeInChunks(size, 12, [i \in 1..MostChunks |-> << >>]).chunks

\* transcribe with the answers of the API: the path taken, the requests of
\* the loop, the waits, the chunks sent and how the call ended
CloudTranscribe(size, replies, fileOk) ==
    LET none == [requests |-> << >>, waits |-> << >>, lastError |-> NULL,
                 returned |-> FALSE, turns |-> 0]
    IN  IF size > MAX_FILE_SIZE
        THEN [loop |-> none, chunked |-> TRUE, late |-> FALSE,
              chunks |-> CloudChunks(size), outcome |-> "result"]
        ELSE LET loop == RetryLoop(1, replies, fileOk, none)
             IN  IF loop.returned
                 THEN [loop |-> loop, chunked |-> FALSE, late |-> FALSE,
                       chunks |-> << >>, outcome |-> "result"]
                 ELSE IF IsTooLarge(loop.lastError[1])
                 THEN [loop |-> loop, chunked |-> TRUE, late |-> TRUE,
                       chunks |-> CloudChunks(size), outcome |-> "result"]
                 ELSE [loop |-> loop, chunked |-> FALSE, late |-> FALSE,
                       chunks |-> << >>, outcome |-> FinalError(loop.lastError[1])]

CloudSizes == { 10, 20, 21, 25, 26, 40 }

CloudReplies == { ReplyOk } \cup ApiErrors

InitCloud ==
    /\ scenesIn = << >>
    /\ durationIn = 0
    /\ minIn = 0
    /\ clipsOut = NULL
    /\ checkLog = << >>
    /\ DetectIdle
    /\ HlIdle
    /\ UpIdle
    /\ TxIdle
    /\ WhisperIdle
    /\ EmbedIdle
    /\ AuthIdle
    /\ MapIdle
    /\ cloudIn \in [size : CloudSizes, replies : [1..maxRetries -> CloudReplies],
                    fileOk : [1..maxRetries -> BOOLEAN]]
    /\ cloudOut = NULL
    /\ DelIdle
    /\ LoadIdle
    /\ PipeIdle

CallCloudTranscribe ==
    /\ cloudOut = NULL
    /\ cloudOut' = Some(CloudTranscribe(cloudIn.size, cloudIn.replies, cloudIn.fileOk))
    /\ UNCHANGED << cloudIn, scenesIn, durationIn, minIn, clipsOut, checkLog >>
    /\ UNCHANGED << detectVars, hlVars, upVars, txVars, pipeVars >>
    /\ UNCHANGED << whisperVars, embedVars, authVars, mapVars, delVars, loadVars >>

NextCloud == CallCloudTranscribe

SpecCloud == InitCloud /\ [][NextCloud]_vars

(* ------------------------------------------------------------------ *)
(* deleteVideo against the video job of the same video                  *)
(* ------------------------------------------------------------------ *)

\* the clips one run of the job creates
DelScenes == 2

\* everything but the deletion race
otherThanDel ==
    << scenesIn, durationIn, minIn, clipsOut, checkLog, detectVars, hlVars, upVars, txVars,
       whisperVars, embedVars, authVars, mapVars, cloudVars, loadVars, pipeVars >>

\* a write that puts the row back when it is gone (upsert in place of updateMany)
UpdateManyUpsert(db, st) ==
    [db |-> [db EXCEPT !.exists = TRUE, !.status = st], count |-> 1]

\* prisma.video.updateMany({ where: { id }, data: { status } }): no row, no write
UpdateMany(db, st) ==
    IF db.exists
    THEN [db |-> [db EXCEPT !.status = st], count |-> 1]
    ELSE [db |-> db, count |-> 0]

\* prisma.video.updateMany({ where: { id, status: from }, data: { status } })
UpdateManyWhere(db, from, st) ==
    IF db.exists /\ db.status = from THEN UpdateMany(db, st) ELSE [db |-> db, count |-> 0]

\* Clip.videoId references Video.id: a Clip row needs its Video row
ForeignKeyHolds(db) ==
    db.exists

\* prisma.clip.create({ data: { videoId, startTime, endTime } })
ClipCreate(db) ==
    [db EXCEPT !.clips = @ \cup {db.nextId}, !.nextId = @ + 1]

\* prisma.clip.updateMany({ where: { id } }): the rows it affects
ClipUpdateCount(db, ids) ==
    Cardinality(ids \cap db.clips)

\* prisma.video.delete({ where: { id } }): the row goes, and its clips with it
DeleteCascade(db) ==
    [db EXCEPT !.exists = FALSE, !.clips = {}]

\* the log after a write that affected count rows
Logged(count) ==
    IF delReq = "deleted"
    THEN [issued |-> delLog.issued + 1, rows |-> delLog.rows + count]
    ELSE delLog

\* the job writes a status and goes on at next
DelWrite(st, next) ==
    LET u == UpdateMany(delDb, st) IN
    /\ delDb' = u.db
    /\ delJob' = [delJob EXCEPT !.pc = next, !.writes = @ + 1]
    /\ delLog' = Logged(u.count)

\* the worker takes the job: prisma.video.findUnique, return when there is no row
DelStart ==
    /\ delJob.pc = "waiting"
    /\ delJob' = [delJob EXCEPT !.pc = IF delDb.exists THEN "access" ELSE "returned",
                                !.attemptsMade = @ + 1,
                                !.ids = {}, !.todo = {}, !.writes = 0,
                                !.late = (delReq = "deleted")]
    /\ UNCHANGED << delDb, delReq, delLog >>
    /\ UNCHANGED otherThanDel

\* fs.access(videoPath): FAILED and a throw outside the try block when the file is gone
DelAccess ==
    /\ delJob.pc = "access"
    /\ IF delDb.file
       THEN /\ delJob' = [delJob EXCEPT !.pc = "processing"]
            /\ UNCHANGED << delDb, delLog >>
       ELSE DelWrite("FAILED", "failedEvt")
    /\ UNCHANGED delReq
    /\ UNCHANGED otherThanDel

\* status PROCESSING
DelProcessing ==
    /\ delJob.pc = "processing"
    /\ DelWrite("PROCESSING", "metadata")
    /\ UNCHANGED delReq
    /\ UNCHANGED otherThanDel

\* getVideoMetadata and generateThumbnail, then the metadata is written
DelMetadata ==
    /\ delJob.pc = "metadata"
    /\ \E ok \in {TRUE} \cup {delDb.file} :
          IF ok
          THEN DelWrite(delDb.status, "refetch")
          ELSE /\ delJob' = [delJob EXCEPT !.pc = "catch"]
               /\ UNCHANGED << delDb, delLog >>
    /\ UNCHANGED delReq
    /\ UNCHANGED otherThanDel

\* the refetch: prisma.video.findUnique, return when the row disappeared
DelRefetch ==
    /\ delJob.pc = "refetch"
    /\ delJob' = [delJob EXCEPT !.pc = IF delDb.exists THEN "clips" ELSE "returned"]
    /\ UNCHANGED << delDb, delReq, delLog >>
    /\ UNCHANGED otherThanDel

\* createClipsFromScenes: one prisma.clip.create of its loop
DelCreateClip ==
    /\ delJob.pc = "clips"
    /\ IF ForeignKeyHolds(delDb)
       THEN /\ delDb' = ClipCreate(delDb)
            /\ delJob' = [delJob EXCEPT !.ids = @ \cup {delDb.nextId},
                                        !.writes = @ + 1,
                                        !.pc = IF Cardinality(delJob.ids) + 1 = DelScenes
                                               THEN "transcribing" ELSE "clips"]
            /\ delLog' = Logged(1)
       ELSE /\ delJob' = [delJob EXCEPT !.pc = "catch", !.writes = @ + 1]
            /\ delLog' = Logged(0)
            /\ UNCHANGED delDb
    /\ UNCHANGED delReq
    /\ UNCHANGED otherThanDel

\* status TRANSCRIBING
DelTranscribing ==
    /\ delJob.pc = "transcribing"
    /\ DelWrite("TRANSCRIBING", "transcribe")
    /\ UNCHANGED delReq
    /\ UNCHANGED otherThanDel

\* transcribeFullVideo: it can throw when the file is gone
DelTranscribe ==
    /\ delJob.pc = "transcribe"
    /\ \E ok \in {TRUE} \cup {delDb.file} :
          delJob' = [delJob EXCEPT !.pc = IF ok THEN "embedding" ELSE "catch"]
    /\ UNCHANGED << delDb, delReq, delLog >>
    /\ UNCHANGED otherThanDel

\* status EMBEDDING
DelEmbedding ==
    /\ delJob.pc = "embedding"
    /\ LET u == UpdateMany(delDb, "EMBEDDING") IN
       /\ delDb' = u.db
       /\ delJob' = [delJob EXCEPT !.pc = "transcripts", !.todo = delJob.ids, !.writes = @ + 1]
       /\ delLog' = Logged(u.count)
    /\ UNCHANGED delReq
    /\ UNCHANGED otherThanDel

\* the transcript of one clip is written: prisma.clip.updateMany
DelClipTranscript ==
    /\ delJob.pc = "transcripts"
    /\ LET id == CHOOSE i \in delJob.todo : \A j \in delJob.todo : i <= j IN
       /\ delJob' = [delJob EXCEPT !.todo = @ \ {id}, !.writes = @ + 1,
                                   !.pc = IF delJob.todo = {id} THEN "embeddings" ELSE "transcripts"]
       /\ delLog' = Logged(ClipUpdateCount(delDb, {id}))
    /\ UNCHANGED << delDb, delReq >>
    /\ UNCHANGED otherThanDel

\* the embeddings of the batch are written: prisma.clip.updateMany for every clip
DelSaveEmbeddings ==
    /\ delJob.pc = "embeddings"
    /\ delJob' = [delJob EXCEPT !.pc = "completion", !.writes = @ + 1]
    /\ delLog' = Logged(ClipUpdateCount(delDb, delJob.ids))
    /\ UNCHANGED << delDb, delReq >>
    /\ UNCHANGED otherThanDel

\* checkVideoCompletion: READY when the status is EMBEDDING
DelCheckCompletion ==
    /\ delJob.pc = "completion"
    /\ LET u == UpdateManyWhere(delDb, "EMBEDDING", "READY") IN
       /\ delDb' = u.db
       /\ delJob' = [delJob EXCEPT !.pc = "returned", !.writes = @ + 1]
       /\ delLog' = Logged(u.count)
    /\ UNCHANGED delReq
    /\ UNCHANGED otherThanDel

\* the catch block: FAILED, and the error is thrown again
DelCatch ==
    /\ delJob.pc = "catch"
    /\ DelWrite("FAILED", "failedEvt")
    /\ UNCHANGED delReq
    /\ UNCHANGED otherThanDel

\* videoWorker.on('failed'): FAILED; the queue runs the job again while attempts are left
DelFailed ==
    /\ delJob.pc = "failedEvt"
    /\ DelWrite("FAILED", IF delJob.attemptsMade < VideoAttempts THEN "waiting" ELSE "failed")
    /\ UNCHANGED delReq
    /\ UNCHANGED otherThanDel

\* deleteVideo: prisma.video.findFirst
DeleteFind ==
    /\ delReq = "none"
    /\ delReq' = IF delDb.exists THEN "found" ELSE "notFound"
    /\ UNCHANGED << delDb, delJob, delLog >>
    /\ UNCHANGED otherThanDel

\* deleteVideo: fs.unlink of the file and of the thumbnail
DeleteUnlink ==
    /\ delReq = "found"
    /\ delReq' = "unlinked"
    /\ delDb' = [delDb EXCEPT !.file = FALSE]
    /\ UNCHANGED << delJob, delLog >>
    /\ UNCHANGED otherThanDel

\* deleteVideo: prisma.video.delete
DeleteRow ==
    /\ delReq = "unlinked"
    /\ delReq' = "deleted"
    /\ delDb' = DeleteCascade(delDb)
    /\ UNCHANGED << delJob, delLog >>
    /\ UNCHANGED otherThanDel

\* a video whose job waits in the queue
InitDelete ==
    /\ scenesIn = << >>
    /\ durationIn = 0
    /\ minIn = 0
    /\ clipsOut = NULL
    /\ checkLog = << >>
    /\ DetectIdle
    /\ HlIdle
    /\ UpIdle
    /\ TxIdle
    /\ WhisperIdle
    /\ EmbedIdle
    /\ AuthIdle
    /\ MapIdle
    /\ CloudIdle
    /\ delDb = [exists |-> TRUE, status |-> "PROCESSING", file |-> TRUE, clips |-> {}, nextId |-> 1]
    /\ delJob = [pc |-> "waiting", attemptsMade |-> 0, ids |-> {}, todo |-> {}, writes |-> 0, late |-> FALSE]
    /\ delReq = "none"
    /\ delLog = [issued |-> 0, rows |-> 0]
    /\ LoadIdle
    /\ PipeIdle

NextDelete ==
    \/ DelStart
    \/ DelAccess
    \/ DelProcessing
    \/ DelMetadata
    \/ DelRefetch
    \/ DelCreateClip
    \/ DelTranscribing
    \/ DelTranscribe
    \/ DelEmbedding
    \/ DelClipTranscript
    \/ DelSaveEmbeddings
    \/ DelCheckCompletion
    \/ DelCatch
    \/ DelFailed
    \/ DeleteFind
    \/ DeleteUnlink
    \/ DeleteRow

SpecDelete == InitDelete /\ [][NextDelete]_vars

(* ------------------------------------------------------------------ *)
(* TransformersJsProvider.getPipeline: the lazy load of the local model *)
(* ------------------------------------------------------------------ *)

\* everything but the model load
otherThanLoad ==
    << scenesIn, durationIn, minIn, clipsOut, checkLog, detectVars, hlVars, upVars, txVars,
       whisperVars, embedVars, authVars, mapVars, cloudVars, delVars, pipeVars >>

\* a job of the microtask queue: a call of getPipeline, the last step of a
\* load, or a caller resumed after its await
Job(kind, who, ok) ==
    [kind |-> kind, who |-> who, ok |-> ok]

\* the loads whose promise is still pending
LoadsInProgress ==
    { n \in 1..MaxLoads : loads[n].state \in {"loading", "finishing"} }

Settled(n) ==
    loads[n].state \in {"fulfilled", "rejected"}

\* the load a new promise stands for
FreshLoad ==
    CHOOSE n \in 1..MaxLoads :
        /\ loads[n].state = "unused"
        /\ \A m \in 1..MaxLoads : loads[m].state = "unused" => n <= m

\* the reactions of a settled promise, queued in the order the callers awaited it
RECURSIVE Resumes(_)
Resumes(waiters) ==
    IF waiters = << >> THEN << >>
    ELSE << Job("resume", Head(waiters), TRUE) >> \o Resumes(Tail(waiters))

\* some running code queues a job that calls getPipeline
EnqueueCall(c) ==
    /\ callers[c].pc = "idle"
    /\ callers' = [callers EXCEPT ![c].pc = "queued"]
    /\ microtasks' = Append(microtasks, Job("call", c, TRUE))
    /\ UNCHANGED << pipeline, pipelinePromise, loads >>
    /\ UNCHANGED otherThanLoad

\* import or pipeline(...) settles: the last step of the load is queued
LoadEnds(n, ok) ==
    /\ loads[n].state = "loading"
    /\ loads' = [loads EXCEPT ![n].state = "finishing"]
    /\ microtasks' = Append(microtasks, Job("settle", n, ok))
    /\ UNCHANGED << pipeline, pipelinePromise, callers >>
    /\ UNCHANGED otherThanLoad

\* getPipeline up to its await: the pipeline when there is one, else the
\* promise, made when there is none
RunCall ==
    /\ microtasks # << >>
    /\ Head(microtasks).kind = "call"
    /\ LET c == Head(microtasks).who IN
       IF pipeline # NULL
       THEN /\ callers' = [callers EXCEPT ![c] = [pc |-> "returned", load |-> 0, got |-> pipeline[1]]]
            /\ microtasks' = Tail(microtasks)
            /\ UNCHANGED << pipeline, pipelinePromise, loads >>
       ELSE LET n == IF pipelinePromise = NULL THEN FreshLoad ELSE pipelinePromise[1] IN
            /\ pipelinePromise' = Some(n)
            /\ loads' = [loads EXCEPT ![n].state = IF pipelinePromise = NULL THEN "loading" ELSE @,
                                      ![n].waiters = Append(@, c)]
            /\ callers' = [callers EXCEPT ![c] = [pc |-> "awaiting", load |-> n, got |-> 0]]
            /\ microtasks' = Tail(microtasks) \o
                                (IF pipelinePromise # NULL /\ Settled(n)
                                 THEN << Job("resume", c, TRUE) >> ELSE << >>)
            /\ UNCHANGED pipeline
    /\ UNCHANGED otherThanLoad

\* the end of the load: the promise is fulfilled, or the catch block resets
\* both fields and the promise is rejected; the awaiting callers are queued
RunSettle ==
    /\ microtasks # << >>
    /\ Head(microtasks).kind = "settle"
    /\ LET n == Head(microtasks).who
           ok == Head(microtasks).ok IN
       /\ loads' = [loads EXCEPT ![n].state = IF ok THEN "fulfilled" ELSE "rejected"]
       /\ pipelinePromise' = IF ok THEN pipelinePromise ELSE NULL
       /\ pipeline' = IF ok THEN pipeline ELSE NULL
       /\ microtasks' = Tail(microtasks) \o Resumes(loads[n].waiters)
    /\ UNCHANGED callers
    /\ UNCHANGED otherThanLoad

\* getPipeline after its await: the pipeline is stored and returned, or the
\* catch block resets both fields and throws
RunResume ==
    /\ microtasks # << >>
    /\ Head(microtasks).kind = "resume"
    /\ LET c == Head(microtasks).who
           n == callers[c].load IN
       IF loads[n].state = "fulfilled"
       THEN /\ pipeline' = Some(n)
            /\ callers' = [callers EXCEPT ![c].pc = "returned", ![c].got = n]
            /\ UNCHANGED pipelinePromise
       ELSE /\ pipeline' = NULL
            /\ pipelinePromise' = NULL
            /\ callers' = [callers EXCEPT ![c].pc = "threw"]
    /\ microtasks' = Tail(microtasks)
    /\ UNCHANGED loads
    /\ UNCHANGED otherThanLoad

\* a provider that has not been asked for its pipeline yet
InitLoad ==
    /\ scenesIn = << >>
    /\ durationIn = 0
    /\ minIn = 0
    /\ clipsOut = NULL
    /\ checkLog = << >>
    /\ DetectIdle
    /\ HlIdle
    /\ UpIdle
    /\ TxIdle
    /\ WhisperIdle
    /\ EmbedIdle
    /\ AuthIdle
    /\ MapIdle
    /\ CloudIdle
    /\ DelIdle
    /\ LoadIdle
    /\ PipeIdle

NextLoad ==
    \/ \E c \in 1..MaxCallers : EnqueueCall(c)
    \/ \E n \in 1..MaxLoads, ok \in BOOLEAN : LoadEnds(n, ok)
    \/ RunCall
    \/ RunSettle
    \/ RunResume

SpecLoad == InitLoad /\ [][NextLoad]_vars

(* ------------------------------------------------------------------ *)
(* The claims                                                          *)
(* ------------------------------------------------------------------ *)
\* a clip that still has text to embed: no embedding, transcript null or not ""
LacksEmbedding(row) ==
    row.embedding = NULL /\ (row.transcript = NULL \/ row.transcript[1] # << >>)

\* every job of the embedding queue has completed, none has failed, and
\* completion detection ran in each without a rejected query
AllJobsCompleted ==
    \A j \in 1..Len(ejobs) : ejobs[j].state = "completed" /\ ~ejobs[j].checkError

\* C1: when transcription returns zero segments, every clip has the empty
\* transcript, no embedding is computed or queued, and when the job is done
\* the video is READY.
C1_ZeroSegmentsReady ==
    (/\ vjob.state = "completed"
     /\ hist.deliveries = 1
     /\ local.clipIds # << >>
     /\ local.segments = << >>)
    => /\ \A k \in 1..Len(clips) :
              clips[k].transcript = Some(<< >>) /\ clips[k].embedding = NULL
       /\ ejobs = << >>
       /\ status = "READY"

\* the edges of the state machine the workers use
ForwardEdges ==
    { << "PROCESSING", "TRANSCRIBING" >>, << "TRANSCRIBING", "EMBEDDING" >>,
      << "EMBEDDING", "READY" >> }

\* C2: every change of the status is one step forward or a move to FAILED
\* from a status that is not terminal; READY and FAILED are never left.
C2_StatusEdges ==
    [][status' # status =>
          \/ << status, status' >> \in ForwardEdges
          \/ (status' = "FAILED" /\ status \notin { "READY", "FAILED" })]_vars

\* C3: after an attempt that failed once clips existed, an attempt that runs
\* the whole flow without a failure, with all its embedding work done, leaves
\* the video READY.
C3_RetryReachesReady ==
    (/\ vjob.state = "completed"
     /\ \E k \in 1..Len(clips) : clips[k].attempt < hist.deliveries
     /\ local.clean
     /\ local.cwt # << >>
     /\ AllJobsCompleted)
    => status = "READY"

\* C4: however often the job is delivered, the Clip rows of the video hold
\* each (startTime, endTime) range once.
C4_RangesOnce ==
    \A a, b \in 1..Len(clips) :
        (clips[a].startTime = clips[b].startTime /\ clips[a].endTime = clips[b].endTime)
        => a = b

\* C5: while the status is READY no clip lacks an embedding it should have.
C5_ReadyMeansEmbedded ==
    status = "READY" => \A k \in 1..Len(clips) : ~LacksEmbedding(clips[k])

\* the video's clips are those of the delivery at hand, its job has returned,
\* every clip with a transcript was given an embedding job and all jobs are done
FanOutDone ==
    /\ vjob.state = "completed"
    /\ \A k \in 1..Len(clips) : clips[k].attempt = hist.deliveries
    /\ Len(ejobs) >= 1
    /\ Len(ejobs) = Len(local.cwt)
    /\ AllJobsCompleted

\* C6: an embedding job has written its embedding before it runs completion
\* detection, and once all embedding jobs of a video in EMBEDDING are done,
\* in whatever order their steps were taken, the video is READY and the
\* update to READY took effect exactly once.
C6_ConcurrentCompletion ==
    /\ \A j \in 1..Len(ejobs) :
           ejobs[j].state \in { "written", "update", "completed" }
           => clips[ejobs[j].clipId].embedding # NULL
    /\ FanOutDone => (status = "READY" /\ hist.readyCount = 1)

\* two embedding jobs of one video are done, one of them after a retry
C6_Witness ==
    /\ FanOutDone
    /\ Len(ejobs) >= 2
    /\ \E j \in 1..Len(ejobs) : ejobs[j].attemptsMade > 0
    /\ status = "READY"

\* C7: for a video in EMBEDDING without pending clips the first call of
\* checkVideoCompletion sets READY and every call after it updates no row
\* and changes nothing.
C7_SecondCallNoOp ==
    (Len(checkLog) >= 1 /\ checkLog[1].before = "EMBEDDING" /\ checkLog[1].pending = 0)
    => /\ checkLog[1].updated = 1
       /\ checkLog[1].after = "READY"
       /\ \A n \in 2..Len(checkLog) :
              checkLog[n].updated = 0 /\ checkLog[n].after = checkLog[n].before

\* two calls in succession on a fully embedded video in EMBEDDING
C7_Witness ==
    /\ Len(checkLog) >= 2
    /\ checkLog[1].before = "EMBEDDING"
    /\ checkLog[1].pending = 0
    /\ Len(clips) >= 1
    /\ \E k \in 1..Len(clips) : clips[k].embedding # NULL

\* C8: after the file check has failed the job is not attempted again, the
\* video is FAILED and the attempt created no clip.
C8_FatalNotRetried ==
    hist.fatalAt # 0
    => /\ hist.deliveries = hist.fatalAt
       /\ status = "FAILED"
       /\ \A k \in 1..Len(clips) : clips[k].attempt # hist.fatalAt

\* nothing is running or waiting to run
Quiescent ==
    /\ vjob.state \in { "completed", "failed" }
    /\ ~failedEvt
    /\ \A j \in 1..Len(ejobs) : ejobs[j].state \in { "completed", "failed" }

\* C9: after transient errors the video is FAILED only once the job's last
\* attempt has failed, so it is not FAILED while a retry is to come; and once
\* an embedding job has used up its attempts the video is FAILED.
C9_FailedOnlyAfterLastAttempt ==
    /\ (status = "FAILED" /\ hist.fatalAt = 0)
       => (vjob.state = "failed" /\ vjob.attemptsMade = VideoAttempts)
    /\ (Quiescent /\ \E j \in 1..Len(ejobs) : ejobs[j].state = "failed")
       => status = "FAILED"

\* C11: every Clip row the pipeline has created ends after it starts,
\* whatever boundary list scene detection produced.
C11_ClipEndsAfterStart ==
    \A k \in 1..Len(clips) : clips[k].endTime > clips[k].startTime

\* C12: a video of 3 to 30 seconds with one transcribed segment inside it,
\* processed in one attempt whose batch call saved every embedding, has
\* exactly one clip, spanning the whole video, with the segment's text and an
\* embedding; no embedding job was queued and the video is READY.
C12_ShortVideoOneClip ==
    (/\ vjob.state = "completed"
     /\ hist.deliveries = 1
     /\ videoDuration >= 3 /\ videoDuration <= SHORT_VIDEO_THRESHOLD
     /\ Len(local.segments) = 1
     /\ local.clean)
    => /\ Len(clips) = 1
       /\ clips[1].startTime = 0 /\ clips[1].endTime = videoDuration
       /\ clips[1].transcript = Some(local.segments[1].text)
       /\ clips[1].embedding # NULL
       /\ ejobs = << >>
       /\ status = "READY"

C14_AttemptTerminates ==
    (vjob.state = "active") ~> (vjob.state # "active")

\* the edges of a Highlight's status
HighlightEdges ==
    { << "PENDING", "PROCESSING" >>, << "PROCESSING", "READY" >>,
      << "PROCESSING", "FAILED" >> }

\* C15: every change of a Highlight's status, over all attempts of its job,
\* is PENDING to PROCESSING, PROCESSING to READY or PROCESSING to FAILED;
\* READY and FAILED are never left.
C15_HighlightStatusEdges ==
    [][(highlight # NULL /\ highlight' # NULL /\ highlight'[1].status # highlight[1].status)
          => << highlight[1].status, highlight'[1].status >> \in HighlightEdges]_vars

\* C16: once a call of generateHighlightVideo has finished, whether it returned
\* or threw, none of the temporary clip files it extracted is on disk.
C16_NoTempFilesLeft ==
    hpc = "idle" => \A f \in Range(hlocal.clipPaths) : f \notin disk.temp

\* C17: a Highlight is READY only with its output path set and the output
\* file written, the path is stored by the update that writes READY, and a
\* call that fails after PROCESSING was set leaves through the catch block
\* with the status FAILED and a failed attempt of the job.
C17_ReadyHasOutputElseFailed ==
    [][/\ (highlight' # NULL /\ highlight'[1].status = "READY")
              => (highlight'[1].outputPath # NULL /\ disk'.output # NULL)
       /\ (highlight # NULL /\ highlight'[1].outputPath # highlight[1].outputPath)
              => highlight'[1].status = "READY"
       /\ (hpc \in { "extract", "cleanup", "setReady" } /\ hpc' \notin { "extract", "cleanup", "setReady" })
              => hpc' \in { "catch", "return" }
       /\ (hpc = "catch" /\ hpc' # "catch")
              => /\ highlight'[1].status = "FAILED"
                 /\ hjob'.attemptsMade = hjob.attemptsMade + 1
                 /\ hjob'.state \in { "waiting", "failed" }]_vars

\* a Highlight that is READY after an attempt that failed during the
\* extraction or the concatenation
C17_Witness ==
    /\ highlight # NULL
    /\ highlight[1].status = "READY"
    /\ highlight[1].outputPath # NULL
    /\ hjob.attemptsMade >= 1
    /\ disk.temp # {}

\* C18: the i-th clip of the request is stored with order i (counted from
\* 0), and the output of a completed rendering job holds one segment for
\* every requested clip, in request order.
C18_OutputInRequestOrder ==
    /\ highlight # NULL
       => \A r \in highlight[1].clips : r.order = r.seg - 1 /\ r.ref = hreq[r.seg]
    /\ hjob.state = "completed"
       => disk.output = Some([k \in 1..Len(hreq) |-> k])

\* C19: a processing job is queued for an upload only once all declared bytes
\* were received and its Video row exists with status PROCESSING, and a
\* session yields one Video row and one job, however the chunk requests
\* interleave.
C19_OneVideoOneJob ==
    /\ \A j \in 1..Len(videoJobs) :
           /\ videoJobs[j].videoId \in 1..Len(videos)
           /\ videos[videoJobs[j].videoId].status = "PROCESSING"
           /\ videos[videoJobs[j].videoId].uploadedSize >= session.size
    /\ Len(videos) <= 1
    /\ Len(videoJobs) <= 1
    /\ (session.deleted /\ \A r \in 1..Len(reqs) : reqs[r].pc \in { "new", "done", "error" })
       => (Len(videos) = 1 /\ Len(videoJobs) = 1)

\* the segment the API reported as number k of request i (0-based), moved by
\* i times the chunk duration d
Moved(i, k, d) ==
    LET seg == txIn.responses[i + 1][k]
    IN  [start |-> seg.start + i * d, end |-> seg.end + i * d, text |-> seg.text]

\* C20: audio of more than 25 MB is split into N = ceil(size / 20 MB) chunks
\* of the same duration D / N, the segments of chunk i (counted from 0) are
\* moved by i * D / N, and the merged list is returned sorted ascending by
\* start.
C20_ChunksOffsetAndSorted ==
    (txOut # NULL /\ txIn.size > 25)
    => LET n == CHOOSE m \in 1..MostChunks : m * 20 >= txIn.size /\ (m - 1) * 20 < txIn.size
           d == txIn.duration \div n
           out == txOut[1].segments
           expected == { << i, k >> \in (0..(n - 1)) \X (1..2) : k <= Len(txIn.responses[i + 1]) }
       IN  /\ Len(txChunks) = n
           /\ \A i \in 0..(n - 1) :
                  txChunks[i + 1] = [startTime |-> i * d, length |-> d]
           /\ Len(out) = Cardinality(expected)
           /\ \E place \in [expected -> 1..Len(out)] :
                  /\ \A a, b \in expected : a # b => place[a] # place[b]
                  /\ \A a \in expected : out[place[a]] = Moved(a[1], a[2], d)
           /\ \A a, b \in 1..Len(out) : a < b => out[a].start <= out[b].start

\* a file of 40 MB was split in two, both chunks had segments, and those of
\* the second chunk came in reverse order
C20_Witness ==
    /\ txOut # NULL
    /\ txIn.size = 40
    /\ Len(txChunks) = 2
    /\ Len(txIn.responses[1]) = 2
    /\ txIn.responses[2] = << Seg(1, 2, << "b" >>), Seg(0, 1, << "a" >>) >>
    /\ Len(txOut[1].segments) = 4

\* C21: the local transcription provider never raises; when the audio file
\* cannot be read, the service cannot be reached, the status is not 2xx or
\* the body is malformed, transcribe returns a result without segments.
C21_WhisperNeverRaises ==
    whisperOut # NULL
    => /\ ~whisperOut[1].threw
       /\ (\/ ~whisperIn.readable
           \/ whisperIn.reply.kind # "json"
           \/ whisperIn.reply.data.segKind = "other")
          => whisperOut[1].segments = << >>

\* C22: for either provider, a call of embedBatch that returns gives one
\* result per text, in input order, with an empty vector at every blank
\* position, and no request to the backend carries a blank text, on the
\* batch path and on the sequential fallback path alike.
C22_EmbedBatchKeepsPositions ==
    embedOut # NULL
    => /\ ~embedOut[1].threw
          => /\ Len(embedOut[1].results) = Len(embedIn.texts)
             /\ \A k \in 1..Len(embedOut[1].results) :
                    /\ embedOut[1].results[k].text = embedIn.texts[k]
                    /\ IsBlank(embedIn.texts[k]) => embedOut[1].results[k].embedding = << >>
       /\ \A r \in 1..Len(embedSent) : \A k \in 1..Len(embedSent[r]) : ~IsBlank(embedSent[r][k])

\* C23: once a call of refreshToken with a token has returned new tokens,
\* no row holds that token any more, and of all the calls made with the
\* token, concurrent or later, at most one returns new tokens.
C23_RefreshTokenUsedOnce ==
    LET returned == { r \in 1..Len(rtReqs) : rtReqs[r].pc = "done" }
    IN  /\ Cardinality(returned) <= 1
        /\ returned # {} => RowsWithToken(rtRows, rtArg) = {}

\* C24: a call of checkVideoCompletion changes the status only from EMBEDDING
\* to READY and only when no clip of the video is pending; when the status
\* is anything else, FAILED included, or a clip is pending, the call updates
\* no row and leaves the status as it was.
C24_OnlyEmbeddingToReady ==
    \A n \in 1..Len(checkLog) :
        LET pending == \E k \in 1..Len(clips) : LacksEmbedding(clips[k])
        IN  /\ checkLog[n].after # checkLog[n].before
               => /\ checkLog[n].before = "EMBEDDING"
                  /\ checkLog[n].after = "READY"
                  /\ ~pending
            /\ (checkLog[n].before # "EMBEDDING" \/ pending)
               => (checkLog[n].updated = 0 /\ checkLog[n].after = checkLog[n].before)
            /\ n = Len(checkLog) => status = checkLog[n].after

\* a call made for a FAILED video all of whose clips are embedded
C24_Witness ==
    /\ Len(checkLog) >= 1
    /\ checkLog[1].before = "FAILED"
    /\ checkLog[1].pending = 0
    /\ Len(clips) >= 1
    /\ \A k \in 1..Len(clips) : clips[k].embedding # NULL
    /\ status = "FAILED"

\* C25: an attempt of the video job in which a step after the file check
\* throws writes FAILED and ends as a failed attempt; while attempts are left
\* the queue runs the job again from its first step; and a job that has
\* failed was attempted exactly 3 times and has left the video FAILED.
C25_ThrowFailsAndRetries ==
    /\ [][(pc \in ThrowPcs /\ vjob.state = "active" /\ vjob'.state \notin { "active", "completed" })
              => (/\ status' = "FAILED"
                  /\ vjob'.attemptsMade = vjob.attemptsMade + 1
                  /\ vjob'.state = IF vjob'.attemptsMade < 3 THEN "waiting" ELSE "failed")]_vars
    /\ [][(vjob.state = "waiting" /\ vjob'.state = "active")
              => (/\ pc' = "findVideo"
                  /\ local' = IdleLocal
                  /\ hist'.deliveries = hist.deliveries + 1)]_vars
    /\ [](vjob.state = "failed"
           => (vjob.attemptsMade = 3 /\ hist.deliveries = 3 /\ status = "FAILED"))

\* the job has failed after an attempt that threw while it queued the clips of
\* the more-than-10 path, with an embedding job of that attempt run since
C25_Witness ==
    /\ vjob.state = "failed"
    /\ ~failedEvt
    /\ status = "FAILED"
    /\ Len(ejobs) >= 1
    /\ ejobs[1].state = "completed"
    /\ \E k \in 1..Len(clips) : clips[k].attempt = 3 /\ clips[k].transcript # NULL

\* the positions of an attempt from scene detection on, from transcription
\* on, and from the choice of the embedding path on
FromScenes ==
    { "scenes", "createClips", "setTranscribing", "transcribe", "setEmbedding", "mapClip",
      "batch", "fallback", "enqueueAll", "checkCount", "checkUpdate", "return" }

FromTranscription ==
    { "transcribe", "setEmbedding", "mapClip", "batch", "fallback", "enqueueAll",
      "checkCount", "checkUpdate", "return" }

FromEmbedding == { "batch", "fallback", "enqueueAll", "checkCount", "checkUpdate", "return" }

\* the clips of the running attempt all have their transcript written
TranscriptsPersisted ==
    \A k \in 1..Len(local.clipIds) : clips[local.clipIds[k]].transcript # NULL

\* C26: within an attempt, scene detection starts only once the metadata
\* probe and the thumbnail are both done and written to the Video row,
\* transcription starts only once all clips of the attempt exist, and the
\* batch embedding call is made and embedding jobs are queued only once the
\* transcript of every clip of the attempt is written, so that an embedding
\* is stored for a clip only when all clips of its attempt have a transcript.
C26_StageOrder ==
    /\ [](pc \in FromScenes => (local.probe /\ local.thumb /\ local.saved))
    /\ [](pc \in FromTranscription
           => /\ Len(local.clipIds)
                    = Len(createClipsFromScenes(local.scenes, videoDuration, DefaultMinClipDuration))
              /\ \A k \in 1..Len(local.clipIds) :
                     /\ local.clipIds[k] \in 1..Len(clips)
                     /\ clips[local.clipIds[k]].attempt = hist.deliveries)
    /\ [](pc \in FromEmbedding => TranscriptsPersisted)
    /\ [][Len(ejobs') > Len(ejobs) => (pc \in FromEmbedding /\ TranscriptsPersisted)]_vars
    /\ [][\A k \in 1..Len(clips) :
              (clips[k].embedding = NULL /\ clips'[k].embedding # NULL)
              => \A n \in 1..Len(clips) :
                     clips[n].attempt = clips[k].attempt => clips[n].transcript # NULL]_vars

\* an attempt for which the cut-detection tool ran is queueing the clips of
\* the more-than-10 path, after an attempt that threw once clips existed
C26_Witness ==
    /\ pc = "enqueueAll"
    /\ local.tool
    /\ Len(local.cwt) > 10
    /\ Len(ejobs) >= 1
    /\ \E k \in 1..Len(clips) : clips[k].attempt < hist.deliveries

\* the clips of the running attempt whose stored transcript is not empty
ClipsWithText ==
    { id \in Range(local.clipIds) : clips[id].transcript # NULL /\ clips[id].transcript[1] # << >> }

JobsFor(id) == { j \in 1..Len(ejobs) : ejobs[j].clipId = id }

\* C27: with k the number of clips that have a non-empty transcript, a video
\* job that has returned made one batch call for those k clips when
\* 1 <= k <= 10, and queued no embedding job if that call succeeded; when
\* k > 10 it made no batch call and queued exactly one embedding job for
\* each of the k clips.  A clip with an empty transcript has no embedding and
\* no embedding job.
C27_BatchUpToTenElseQueue ==
    LET k == Cardinality(ClipsWithText)
    IN  /\ (vjob.state = "completed" /\ k >= 1 /\ k <= 10)
           => /\ local.batch # "none"
              /\ Range(local.cwt) = ClipsWithText /\ Len(local.cwt) = k
              /\ local.batch = "ok" => ejobs = << >>
        /\ (vjob.state = "completed" /\ k > 10)
           => /\ local.batch = "none"
              /\ Len(ejobs) = k
              /\ \A id \in ClipsWithText : Cardinality(JobsFor(id)) = 1
        /\ \A n \in 1..Len(clips) :
               clips[n].transcript \in { NULL, Some(<< >>) }
               => (clips[n].embedding = NULL /\ JobsFor(n) = {})

\* a job that has returned for a video with 11 clips with a transcript and
\* two without
C27_Witness ==
    /\ vjob.state = "completed"
    /\ Cardinality(ClipsWithText) = 11
    /\ Len(clips) = 13
    /\ Len(ejobs) = 11

\* no embedding job queued for a clip of the batch has been taken up yet
FallbackJobsUntouched ==
    \A j \in 1..Len(ejobs) :
        ejobs[j].clipId \in Range(local.cwt)
        => (ejobs[j].state = "waiting" /\ ejobs[j].attemptsMade = 0)

\* C28: after the inline batch call has failed, the video job is not failed,
\* no clip of the batch has an embedding and the status is EMBEDDING as long
\* as no queued job has run, and once the job has returned every clip of the
\* with-transcript set has exactly one embedding job.
C28_BatchFailureQueuesEveryClip ==
    local.batch = "failed"
    => /\ vjob.state \in { "active", "completed" }
       /\ FallbackJobsUntouched
          => \A id \in Range(local.cwt) : clips[id].embedding = NULL
       /\ (FallbackJobsUntouched /\ hist.deliveries = 1) => status = "EMBEDDING"
       /\ vjob.state = "completed"
          => \A id \in Range(local.cwt) : Cardinality(JobsFor(id)) = 1

\* C29: after the inline batch call has returned its vectors, a clip whose
\* vector is invalid or whose write fails has no embedding, every other clip
\* of the batch has its embedding, and the video job is not failed.
C29_BadClipSkippedOthersWritten ==
    local.batch = "ok"
    => /\ \A id \in Range(local.cwt) : (clips[id].embedding = NULL) <=> (id \in local.bad)
       /\ vjob.state \in { "active", "completed" }

\* a returned job whose batch had one clip skipped and another one written
C29_Witness ==
    /\ local.batch = "ok"
    /\ vjob.state = "completed"
    /\ local.bad # {}
    /\ local.bad # Range(local.cwt)
    /\ local.cwt[1] \in local.bad

\* the rule of the specification for a segment and a clip
OnBoundaryOrOverlap(s, clip) ==
    \/ Max(s.start, clip.startTime) < Min(s.end, clip.endTime)
    \/ (s.start = s.end /\ s.start \in { clip.startTime, clip.endTime })

\* the texts of the segments at the positions in ns, in segment order
RECURSIVE TextsOf(_, _, _)
TextsOf(segs, ns, n) ==
    IF n > Len(segs) THEN << >>
    ELSE (IF n \in ns THEN segs[n].text ELSE << >>) \o TextsOf(segs, ns, n + 1)

\* C30: a segment [s, e] is assigned to the clip [a, b] exactly when
\* max(s, a) < min(e, b), or when it has zero length and lies on a boundary
\* of the clip; the transcript of the clip is the joined texts of the
\* assigned segments in segment order.
C30_AssignedIffOverlapOrBoundary ==
    mapOut # NULL
    => /\ \A n \in 1..Len(mapSegs) :
              (n \in mapOut[1].assigned) <=> OnBoundaryOrOverlap(mapSegs[n], mapClip)
       /\ mapOut[1].transcript = TextsOf(mapSegs, mapOut[1].assigned, 1)

\* an error of the connection class: it has no HTTP status
NoHttpStatus(error) == error.status = NULL

\* C31: for a file within the 25 MB ceiling the retry loop sends at most 3
\* requests, every request but the last one failed with a connection-class
\* error, the waits are 1 s then 2 s, a first error with an HTTP status (401,
\* 429, 413) ends the loop after that one request, and the errors raised for
\* 401, 429 and a connection failure differ from one another.
C31_RetryOnlyConnectionErrors ==
    (cloudOut # NULL /\ cloudIn.size <= 25)
    => LET out == cloudOut[1]
           requests == out.loop.requests
       IN  /\ Len(requests) <= 3
           /\ \A n \in 1..Len(requests) - 1 :
                  requests[n] # ReplyOk /\ NoHttpStatus(requests[n])
           /\ out.loop.waits = SubSeq(<< 1, 2 >>, 1, out.loop.turns - 1)
           /\ (requests # << >> /\ requests[1] \in { ErrAuth, ErrRateLimit, ErrTooLarge })
              => Len(requests) = 1
           /\ (requests # << >> /\ requests[Len(requests)] = ErrAuth) => out.outcome = "auth"
           /\ (requests # << >> /\ requests[Len(requests)] = ErrRateLimit)
              => out.outcome = "rateLimit"
           /\ (requests # << >> /\ requests[Len(requests)] \in { ErrConnection, ErrReset })
              => out.outcome = "connection"

\* two connection errors, each waited for, and then a rejected API key
C31_Witness ==
    /\ cloudOut # NULL
    /\ cloudIn.size = 20
    /\ cloudOut[1].loop.requests = << ErrConnection, ErrReset, ErrAuth >>
    /\ cloudOut[1].loop.waits = << 1, 2 >>
    /\ cloudOut[1].outcome = "auth"

\* C32: whenever the chunking path runs, entered by the size check or by
\* the late switch after a payload-too-large error, the audio is cut into at
\* least 2 chunks and every chunk is shorter than the whole audio.
C32_ChunkingMakesTwoOrMore ==
    (cloudOut # NULL /\ cloudOut[1].chunked)
    => /\ Len(cloudOut[1].chunks) >= 2
       /\ \A n \in 1..Len(cloudOut[1].chunks) : cloudOut[1].chunks[n].length < 12

\* C33: for either provider, when the batch request of embedBatch fails the
\* call does not raise: it returns one result per text, with the vector of
\* the text where the single embedding succeeded and an empty vector where
\* it failed.
C33_BatchFailureFallsBackPerText ==
    (embedOut # NULL /\ embedIn.batch = "throw" /\ ValidTexts(embedIn.texts) # << >>)
    => /\ ~embedOut[1].threw
       /\ Len(embedOut[1].results) = Len(embedIn.texts)
       /\ \A k \in 1..Len(embedOut[1].results) :
              embedOut[1].results[k].embedding =
                  (IF embedIn.single[k] THEN Vec(embedIn.texts[k]) ELSE << >>)

\* C34: for a video longer than 30 s, when the cut-detection process fails
\* to start, exits with an error or is killed by its timeout, detectScenes
\* resolves to exactly the boundary list 0, duration.
C34_ToolFailureGivesWholeVideo ==
    (/\ detectOut # NULL
     /\ detectIn.duration # NULL /\ detectIn.duration[1] > 30
     /\ detectIn.tool.kind = "error" \/ detectIn.tool.exit \in { "failed", "killed" })
    => detectOut[1].scenes = << 0, detectIn.duration[1] >>

\* C35: a chunk request is accepted only while its offset equals the
\* uploadedSize of the session; a request refused for its offset has written
\* nothing to the file and made no update; the update of an accepted request
\* adds exactly the length of its chunk to uploadedSize.
C35_ChunkAcceptedAtCurrentOffset ==
    \A r \in 1..Len(reqs) :
        /\ reqs[r].pc = "append" => OffsetMatches(reqs[r].offset, session.uploadedSize)
        /\ reqs[r].error = "invalidOffset" => (reqs[r].appended = 0 /\ reqs[r].grew = NULL)
        /\ reqs[r].grew # NULL => reqs[r].grew[1] = reqs[r].len

\* the requests that passed the offset check
AcceptedRequests ==
    { r \in 1..Len(reqs) : reqs[r].appended > 0 \/ reqs[r].pc = "append" }

\* C38: with chunk requests of one session running concurrently, whenever
\* no request is between its append and its update the uploadedSize of the
\* session equals the bytes appended to the file, and no two requests were
\* accepted at the same offset.
C38_UploadedSizeIsFileSize ==
    /\ (\A r \in 1..Len(reqs) : reqs[r].pc # "update") => session.uploadedSize = uploadFile
    /\ \A r1, r2 \in AcceptedRequests :
           r1 # r2 => reqs[r1].currentOffset # reqs[r2].currentOffset

\* the video job and every embedding job queued for the video have ended,
\* and the handler of a failed attempt has run
AllJobsFinished ==
    /\ vjob.state \in { "completed", "failed" }
    /\ ~failedEvt
    /\ \A j \in 1..Len(ejobs) : ejobs[j].state \in { "completed", "failed" }

\* C36: once every job started for a video has finished, the video is not
\* left in EMBEDDING: it has reached READY or FAILED, also when an embedding
\* job used up its attempts, a clip was skipped in the batch path or a
\* fallback job could not be queued.
C36_NeverLeftInEmbedding ==
    AllJobsFinished => status # "EMBEDDING"

\* the clips of the running attempt, in the order they were created
AttemptClips == [k \in 1..Len(local.clipIds) |-> clips[local.clipIds[k]]]

\* the segment has positive length and lies within the video
InsideVideo(s) == s.start < s.end /\ 0 <= s.start /\ s.end <= videoDuration

\* C37: once the clips of an attempt are created there is at least one, the
\* first starts at 0 and the last ends at the duration of the video; once
\* their transcripts are written, every segment of positive length within
\* the video is assigned to a clip of the attempt whose transcript holds
\* its text.
C37_ClipsCoverVideo ==
    (vjob.state = "active" /\ pc \in FromTranscription)
    => /\ Len(AttemptClips) >= 1
       /\ AttemptClips[1].startTime = 0
       /\ AttemptClips[Len(AttemptClips)].endTime = videoDuration
       /\ pc \in FromEmbedding
          => \A n \in 1..Len(local.segments) :
                 InsideVideo(local.segments[n])
                 => \E k \in 1..Len(AttemptClips) :
                        /\ Overlaps(local.segments[n], AttemptClips[k])
                        /\ AttemptClips[k].transcript # NULL
                        /\ Range(local.segments[n].text) \subseteq Range(AttemptClips[k].transcript[1])

\* a video of 35 s cut every 3 s: its last clip is the short rest from 33 to
\* 35, and it holds the text of the segment spoken there
C37_Witness ==
    /\ pc = "return"
    /\ videoDuration = 35
    /\ Len(local.segments) = 2
    /\ AttemptClips[Len(AttemptClips)].startTime = 33
    /\ AttemptClips[Len(AttemptClips)].transcript = Some(<< "w2" >>)

\* C39: once deleteVideo has deleted the row, the job never puts it back and
\* no Clip row of the video is left; a run of the job that started after the
\* deletion has returned without issuing a write, and the writes issued after
\* the deletion affected zero rows
C39_DeletedVideoStaysDeleted ==
    delReq = "deleted" =>
        /\ ~delDb.exists
        /\ delDb.clips = {}
        /\ delLog.rows = 0
        /\ delJob.late => (delJob.pc = "returned" /\ delJob.writes = 0)

\* C39: the row was deleted while a run of the job was under way, the run
\* issued status updates afterwards and has ended
C39_Witness ==
    /\ delReq = "deleted"
    /\ ~delJob.late
    /\ delJob.ids # {}
    /\ delLog.issued > 0
    /\ delJob.pc \in {"returned", "failed"}

\* the pipelines the callers of getPipeline were given
PipelinesGiven ==
    { callers[c].got : c \in { d \in 1..MaxCallers : callers[d].pc = "returned" } }

\* C40: at most one load of the model is in progress at any time, and the
\* callers that were given a pipeline were all given the same one
C40_SingleFlightLoad ==
    /\ Cardinality(LoadsInProgress) <= 1
    /\ Cardinality(PipelinesGiven) <= 1

====
